---------------------------- MODULE Spec2Model ----------------------------
(***************************************************************************)
(* Model of the StockAlert notifier (app.js with config.js, scraper.js and *)
(* notifier.js).  A one-second timer invokes checkStockAndNotify at the    *)
(* target instants; a cycle fetches a stock snapshot, computes its         *)
(* signature, resets the notified set when the signature changed, matches  *)
(* the keyword items that were not notified yet and hands one message to   *)
(* the sender unless quiet hours are on.                                   *)
(*                                                                         *)
(* JavaScript strings are sequences of UTF-16 code units (integers), so    *)
(* that sort(), join(), toLowerCase() and includes() are computed the way  *)
(* the engine computes them.                                               *)
(***************************************************************************)
EXTENDS Integers, Sequences, FiniteSets, Bags, TLC

(***************************************************************************)
(* Bounds of the model.                                                    *)
(***************************************************************************)
\* largest number of items in one snapshot of the cycle specification
MaxItems == 2
\* largest number of items in one snapshot of the signature specification
MaxSigItems == 2
\* largest number of items in one snapshot of the epoch specification
MaxEpochItems == 1
\* largest number of headed lists in one page of the scraper specification
MaxSections == 2
\* largest number of items in one snapshot of the pass specification
MaxPassItems == 2
\* largest number of items in one snapshot of the interval specification
MaxIntervalItems == 1
\* largest number of executions of the interval variant in flight at once
MaxOverlap == 2

(***************************************************************************)
(* config.js                                                               *)
(***************************************************************************)
TARGET_MINUTES == {2, 6, 11, 16, 21, 26, 31, 36, 41, 46, 51, 56}

TARGET_SECONDS == 30

KEYWORDS_TO_MONITOR ==
    << <<83, 117, 103, 97, 114, 32, 65, 112, 112, 108, 101>>,             \* 'Sugar Apple'
       <<70, 101, 105, 106, 111, 97>>,                                     \* 'Feijoa'
       <<76, 111, 113, 117, 97, 116>>,                                     \* 'Loquat'
       <<80, 114, 105, 99, 107, 108, 121, 32, 80, 101, 97, 114>>,          \* 'Prickly Pear'
       <<66, 101, 108, 108, 32, 80, 101, 112, 112, 101, 114>>,             \* 'Bell Pepper'
       <<75, 105, 119, 105>>,                                              \* 'Kiwi'
       <<80, 105, 110, 101, 97, 112, 112, 108, 101>>,                      \* 'Pineapple'
       <<66, 117, 103, 32, 69, 103, 103>>,                                 \* 'Bug Egg'
       <<76, 105, 103, 104, 116, 110, 105, 110, 103, 32, 82, 111, 100>>,   \* 'Lightning Rod'
       <<77, 97, 115, 116, 101, 114, 32, 83, 112, 114, 105, 110, 107, 108, 101, 114>> >> \* 'Master Sprinkler'

(***************************************************************************)
(* Item names the stock provider is made to return.                        *)
(***************************************************************************)
Kiwi == <<75, 105, 119, 105>>                         \* "Kiwi"
Loquat == <<76, 111, 113, 117, 97, 116>>              \* "Loquat"
Carrot == <<67, 97, 114, 114, 111, 116>>              \* "Carrot"
\* "Kiwi|Egg,Loquat": a name that contains both separator characters
KiwiEggLoquat == <<75, 105, 119, 105, 124, 69, 103, 103, 44, 76, 111, 113, 117, 97, 116>>

ItemNames == {Kiwi, Carrot}

\* names for the keyword search: a keyword alone, in another case with more
\* text after it or before it, two keywords in both orders, a keyword cut
\* short or split, no keyword, no name
BugEgg == <<66, 117, 103, 32, 69, 103, 103>>                           \* "Bug Egg"
BugEggplantUpper == <<66, 85, 71, 32, 69, 71, 71, 80, 76, 65, 78, 84>>  \* "BUG EGGPLANT"
GoldenKiwiLower == <<103, 111, 108, 100, 101, 110, 32, 107, 105, 119, 105>> \* "golden kiwi"
KiwiPineapple == <<75, 105, 119, 105, 32, 80, 105, 110, 101, 97, 112, 112, 108, 101>>
PineappleKiwi == <<80, 105, 110, 101, 97, 112, 112, 108, 101, 32, 75, 105, 119, 105>>
BugEggLoquat == <<66, 117, 103, 32, 69, 103, 103, 32, 76, 111, 113, 117, 97, 116>>
KiSpaceWi == <<75, 105, 32, 119, 105>>                                 \* "Ki wi"
Kiw == <<75, 105, 119>>                                                \* "Kiw"

MatchNames ==
    {BugEgg, BugEggplantUpper, GoldenKiwiLower, KiwiPineapple, PineappleKiwi,
     BugEggLoquat, KiSpaceWi, Kiw, Carrot, <<>>}

SigItemNames == {Kiwi, Loquat, KiwiEggLoquat}

\* names for the pass over a snapshot: two keywords, no keyword, no name
PassItemNames == {Kiwi, Loquat, Carrot, <<>>}

(***************************************************************************)
(* JavaScript string primitives.                                           *)
(***************************************************************************)
\* String.prototype.toLowerCase on one code unit (ASCII range)
LowerUnit(c) == IF c >= 65 /\ c <= 90 THEN c + 32 ELSE c

\* the conversion left out
toLowerCase_Identity(s) == s

toLowerCase(s) == [i \in 1..Len(s) |-> LowerUnit(s[i])]

\* String.prototype.includes: kw occurs in s as a contiguous substring
includes(s, kw) ==
    \E i \in 0..(Len(s) - Len(kw)) : SubSeq(s, i + 1, i + Len(kw)) = kw

\* the order of the default Array.prototype.sort comparator: code units
\* compared left to right, a proper prefix first
StrLess(a, b) ==
    \E i \in 1..Len(b) :
        /\ i <= Len(a) + 1
        /\ \A j \in 1..(i - 1) : a[j] = b[j]
        /\ (i = Len(a) + 1 \/ a[i] < b[i])

RECURSIVE InsertSorted(_, _)
InsertSorted(x, sorted) ==
    IF sorted = <<>> THEN <<x>>
    ELSE IF StrLess(Head(sorted), x)
         THEN <<Head(sorted)>> \o InsertSorted(x, Tail(sorted))
         ELSE <<x>> \o sorted

\* sort() left out: the tokens stay in the order they were pushed
sort_Unsorted(arr) == arr

\* Array.prototype.sort() without a comparator
RECURSIVE sort(_)
sort(arr) ==
    IF arr = <<>> THEN <<>> ELSE InsertSorted(Head(arr), sort(Tail(arr)))

\* Array.prototype.join(',')
RECURSIVE join(_)
join(arr) ==
    IF arr = <<>> THEN <<>>
    ELSE IF Len(arr) = 1 THEN arr[1]
    ELSE arr[1] \o <<44>> \o join(Tail(arr))

(***************************************************************************)
(* scraper.js: the snapshot.  A stock object is the sequence of its        *)
(* properties in Object.keys order; each property holds the item list of   *)
(* one category and an item is a record with a name.                       *)
(***************************************************************************)
StockKeys == <<"seedsStock", "eggStock", "gearStock">>

RECURSIVE SeqsUpTo(_, _)
SeqsUpTo(S, n) ==
    IF n = 0 THEN {<<>>}
    ELSE LET shorter == SeqsUpTo(S, n - 1)
         IN  shorter \cup {Append(q, x) : q \in {r \in shorter : Len(r) = n - 1}, x \in S}

Items(names) == {[name |-> n] : n \in names}

\* the stock objects fetchStockData can return with at most n items drawn
\* from names: the three lists in the order the object literal creates them
StockObjects(names, n) ==
    { << [key |-> StockKeys[1], items |-> a],
         [key |-> StockKeys[2], items |-> b],
         [key |-> StockKeys[3], items |-> c] >> :
        <<a, b, c>> \in
            { t \in SeqsUpTo(Items(names), n) \X SeqsUpTo(Items(names), n)
                        \X SeqsUpTo(Items(names), n) :
                Len(t[1]) + Len(t[2]) + Len(t[3]) <= n } }

\* the snapshots of the cycle specification
CycleStocks == StockObjects(ItemNames, MaxItems)

(***************************************************************************)
(* scraper.js: fetchStockData.  A response is an axios rejection (network  *)
(* error, timeout, status outside 2xx) or a page; a page is the sequence   *)
(* of its headed lists, each an h2 text with the span texts of the li      *)
(* elements of the ul beside it.                                           *)
(***************************************************************************)
\* the keys of stockCategories in for-in order, with the list each one feeds
stockCategories ==
    << [heading |-> "SEEDS STOCK", key |-> "seedsStock"],
       [heading |-> "EGG STOCK", key |-> "eggStock"],
       [heading |-> "GEAR STOCK", key |-> "gearStock"],
       [heading |-> "HONEY STOCK", key |-> "gearStock"],
       [heading |-> "COSMETICS STOCK", key |-> "gearStock"] >>

\* String.prototype.trim on the white space a span text can carry
isSpace(c) == c \in {9, 10, 13, 32}

RECURSIVE trimStart(_)
trimStart(s) == IF s # <<>> /\ isSpace(Head(s)) THEN trimStart(Tail(s)) ELSE s

RECURSIVE trimEnd(_)
trimEnd(s) ==
    IF s # <<>> /\ isSpace(s[Len(s)]) THEN trimEnd(SubSeq(s, 1, Len(s) - 1)) ELSE s

trim(s) == trimEnd(trimStart(s))

\* lines 73-81: the items pushed for one heading, from the list beside the
\* first h2 with that text; nothing when the page has no such h2
pushedFor(sections, heading) ==
    LET at == {j \in 1..Len(sections) : sections[j].heading = heading}
    IN  IF at = {} THEN <<>>
        ELSE LET first == CHOOSE j \in at : \A h \in at : j <= h
                 texts == sections[first].items
                 itemNames == [j \in 1..Len(texts) |-> trim(texts[j])]
             IN  [j \in 1..Len(SelectSeq(itemNames, LAMBDA n : n # <<>>)) |->
                     [name |-> SelectSeq(itemNames, LAMBDA n : n # <<>>)[j]]]

\* the list a key of the stock object ends with: the pushes of its headings
\* in loop order
RECURSIVE pushedInto(_, _, _)
pushedInto(sections, key, k) ==
    IF k > Len(stockCategories) THEN <<>>
    ELSE (IF stockCategories[k].key = key
          THEN pushedFor(sections, stockCategories[k].heading) ELSE <<>>)
         \o pushedInto(sections, key, k + 1)

\* what the promise of fetchStockData resolves to: null from the catch
\* clause when axios.get rejects, the stock object otherwise
fetchStockData(response) ==
    IF response.kind # "page"
    THEN [isNull |-> TRUE, stock |-> <<>>]
    ELSE [isNull |-> FALSE,
          stock |-> [j \in 1..Len(StockKeys) |->
                        [key |-> StockKeys[j],
                         items |-> pushedInto(response.sections, StockKeys[j], 1)]]]

(***************************************************************************)
(* app.js: pure parts of checkStockAndNotify.                              *)
(***************************************************************************)
categoryMap(catKey) ==
    CASE catKey = "seedsStock" -> <<83, 101, 101, 100, 115>>   \* 'Seeds'
      [] catKey = "eggStock" -> <<69, 103, 103>>                \* 'Egg'
      [] catKey = "gearStock" ->                                \* 'Gear/Honey/Cosmetics'
            <<71, 101, 97, 114, 47, 72, 111, 110, 101, 121, 47,
              67, 111, 115, 109, 101, 116, 105, 99, 115>>

\* `${item.name}|${categoryMap[catKey]}`
itemIdentifier(name, catKey) == name \o <<124>> \o categoryMap(catKey)

\* the properties visited in the order of their sorted keys
VisitOrder_KeysSorted(stock) ==
    LET order == <<2, 3, 1>>
        visitsOf(k) == [i \in 1..Len(stock[k].items) |->
                           [name |-> stock[k].items[i].name, catKey |-> stock[k].key]]
    IN  IF stock = <<>> THEN <<>>
        ELSE visitsOf(order[1]) \o visitsOf(order[2]) \o visitsOf(order[3])

\* the (item, catKey) pairs in the order the two forEach loops visit them
RECURSIVE VisitOrder(_)
VisitOrder(stock) ==
    IF stock = <<>> THEN <<>>
    ELSE [i \in 1..Len(stock[1].items) |->
             [name |-> stock[1].items[i].name, catKey |-> stock[1].key]]
         \o VisitOrder(Tail(stock))

\* the items that pass `item && item.name`
Named(visits) == SelectSeq(visits, LAMBDA v : v.name # <<>>)

allCurrentStockItems(stock) ==
    LET visits == Named(VisitOrder(stock))
    IN  [i \in 1..Len(visits) |-> itemIdentifier(visits[i].name, visits[i].catKey)]

currentOverallStockSignature(stock) == join(sort(allCurrentStockItems(stock)))

\* currentOverallStockSignature tabulated over the snapshots of the cycle
\* specification
signatureOf == [stock \in CycleStocks |-> currentOverallStockSignature(stock)]

\* the last keyword found instead of the first
matchedKeywordIndex_LastHit(name) ==
    LET lowerCaseItemName == toLowerCase(name)
        hits == {k \in 1..Len(KEYWORDS_TO_MONITOR) :
                    includes(lowerCaseItemName, toLowerCase(KEYWORDS_TO_MONITOR[k]))}
    IN  IF hits = {} THEN 0
        ELSE CHOOSE k \in hits : \A h \in hits : k >= h

\* KEYWORDS_TO_MONITOR.find(kw => lowerCaseItemName.includes(kw.toLowerCase())):
\* the index of the first keyword found, 0 for undefined
matchedKeywordIndex(name) ==
    LET lowerCaseItemName == toLowerCase(name)
        hits == {k \in 1..Len(KEYWORDS_TO_MONITOR) :
                    includes(lowerCaseItemName, toLowerCase(KEYWORDS_TO_MONITOR[k]))}
    IN  IF hits = {} THEN 0
        ELSE CHOOSE k \in hits : \A h \in hits : k <= h

\* matchedKeywordIndex tabulated over the names in use
keywordIndexOf ==
    [n \in ItemNames \cup SigItemNames \cup MatchNames |-> matchedKeywordIndex(n)]

\* the pass without the `notifiedItemsThisOverallStockCycle.has` test
RECURSIVE MatchPass_NoDedup(_, _, _)
MatchPass_NoDedup(visits, notified, found) ==
    IF visits = <<>> THEN [notified |-> notified, found |-> found]
    ELSE LET v == Head(visits)
             id == itemIdentifier(v.name, v.catKey)
             kw == keywordIndexOf[v.name]
         IN  IF v.name = <<>> \/ kw = 0
             THEN MatchPass_NoDedup(Tail(visits), notified, found)
             ELSE MatchPass_NoDedup(Tail(visits), notified \cup {id},
                            Append(found, [name |-> v.name,
                                           category |-> categoryMap(v.catKey),
                                           matchedKeyword |-> KEYWORDS_TO_MONITOR[kw]]))

\* the pass with every named item marked, matched or not
RECURSIVE MatchPass_MarksEveryItem(_, _, _)
MatchPass_MarksEveryItem(visits, notified, found) ==
    IF visits = <<>> THEN [notified |-> notified, found |-> found]
    ELSE LET v == Head(visits)
             id == itemIdentifier(v.name, v.catKey)
             kw == keywordIndexOf[v.name]
         IN  IF v.name = <<>> \/ id \in notified
             THEN MatchPass_MarksEveryItem(Tail(visits), notified, found)
             ELSE IF kw = 0
             THEN MatchPass_MarksEveryItem(Tail(visits), notified \cup {id}, found)
             ELSE MatchPass_MarksEveryItem(Tail(visits), notified \cup {id},
                            Append(found, [name |-> v.name,
                                           category |-> categoryMap(v.catKey),
                                           matchedKeyword |-> KEYWORDS_TO_MONITOR[kw]]))

\* the pass as a filter against the set it started with, the marks made
\* when it is over
RECURSIVE MatchPass_MarksAfterPass(_, _, _)
MatchPass_MarksAfterPass(visits, notified, found) ==
    IF visits = <<>>
    THEN [notified |-> notified \cup
                          {found[i].name \o <<124>> \o found[i].category :
                              i \in 1..Len(found)},
          found |-> found]
    ELSE LET v == Head(visits)
             id == itemIdentifier(v.name, v.catKey)
             kw == keywordIndexOf[v.name]
         IN  IF v.name = <<>> \/ id \in notified \/ kw = 0
             THEN MatchPass_MarksAfterPass(Tail(visits), notified, found)
             ELSE MatchPass_MarksAfterPass(Tail(visits), notified,
                            Append(found, [name |-> v.name,
                                           category |-> categoryMap(v.catKey),
                                           matchedKeyword |-> KEYWORDS_TO_MONITOR[kw]]))

\* the second forEach pass: found is newlyFoundKeywordItems and notified is
\* notifiedItemsThisOverallStockCycle, both updated item by item
RECURSIVE MatchPass(_, _, _)
MatchPass(visits, notified, found) ==
    IF visits = <<>> THEN [notified |-> notified, found |-> found]
    ELSE LET v == Head(visits)
             id == itemIdentifier(v.name, v.catKey)
             kw == keywordIndexOf[v.name]
         IN  IF v.name = <<>> \/ id \in notified \/ kw = 0
             THEN MatchPass(Tail(visits), notified, found)
             ELSE MatchPass(Tail(visits), notified \cup {id},
                            Append(found, [name |-> v.name,
                                           category |-> categoryMap(v.catKey),
                                           matchedKeyword |-> KEYWORDS_TO_MONITOR[kw]]))

\* the window test without the overnight branch
isQuietHours_NoWrap(hour, start, end) == hour >= start /\ hour < end

\* isQuietHours() for the hour getCurrentTimeInTimezone() reports
isQuietHours(hour, start, end) ==
    IF start < end
    THEN hour >= start /\ hour < end
    ELSE hour >= start \/ hour < end


(***************************************************************************)
(* FetchData.js, the scheduled variant (lines 347-684): the values of an   *)
(* item of the API response.  An item is null or an object; the name of an *)
(* object is missing or a string, which may be empty.                      *)
(***************************************************************************)
NullItem == [isNull |-> TRUE, nameType |-> "undefined", name |-> <<>>]

NoNameItem == [isNull |-> FALSE, nameType |-> "undefined", name |-> <<>>]

StringItem(n) == [isNull |-> FALSE, nameType |-> "string", name |-> n]

\* lines 394-398
keywordsToMonitor ==
    << <<68, 114, 97, 103, 111, 110, 32, 70, 114, 117, 105, 116>>,  \* 'Dragon Fruit'
       <<77, 97, 110, 103, 111>>,  \* 'Mango'
       <<71, 114, 97, 112, 101>>,  \* 'Grape'
       <<77, 117, 115, 104, 114, 111, 111, 109>>,  \* 'Mushroom'
       <<80, 101, 112, 112, 101, 114>>,  \* 'Pepper'
       <<67, 97, 99, 97, 111>>,  \* 'Cacao'
       <<66, 101, 97, 110, 115, 116, 97, 108, 107>>,  \* 'Beanstalk'
       <<66, 117, 103, 32, 69, 103, 103>>,  \* 'Bug Egg'
       <<76, 101, 103, 101, 110, 100, 97, 114, 121, 32, 69, 103, 103>>,  \* 'Legendary Egg'
       <<77, 121, 116, 104, 105, 99, 97, 108, 32, 69, 103, 103>>,  \* 'Mythical Egg'
       <<76, 105, 103, 104, 116, 110, 105, 110, 103, 32, 82, 111, 100>> >>  \* 'Lightning Rod'

\* line 538
scheduledCategoryMap(catKey) ==
    CASE catKey = "seedsStock" -> <<83, 101, 101, 100>>   \* 'Seed'
      [] catKey = "eggStock" -> <<69, 103, 103>>           \* 'Egg'
      [] catKey = "gearStock" -> <<71, 101, 97, 114>>      \* 'Gear'

\* the test `item && typeof item.name === 'string'` of line 543, which is
\* the negation of the test of line 502
hasStringName(item) == ~item.isNull /\ item.nameType = "string"

\* lines 540-550: the tokens pushed for the signature, the categories in the
\* order of the array of line 537, which is the order of the stock object
RECURSIVE allCurrentStockItemsForSignature(_)
allCurrentStockItemsForSignature(stockData) ==
    IF stockData = <<>> THEN <<>>
    ELSE LET items == SelectSeq(stockData[1].items, hasStringName)
         IN  [i \in 1..Len(items) |->
                 items[i].name \o <<124>> \o scheduledCategoryMap(stockData[1].key)]
             \o allCurrentStockItemsForSignature(Tail(stockData))

\* line 552
scheduledSignature(stockData) == join(sort(allCurrentStockItemsForSignature(stockData)))

\* lines 509-520: the first keyword the lower-case name includes, 0 for none
firstKeywordIn(itemName, currentKeywords) ==
    LET hits == {k \in 1..Len(currentKeywords) :
                    includes(toLowerCase(itemName), toLowerCase(currentKeywords[k]))}
    IN  IF hits = {} THEN 0 ELSE CHOOSE k \in hits : \A h \in hits : k <= h

\* lines 496-523: a filter against the set it is given, which it leaves as
\* it is
RECURSIVE findNewKeywordItemsInCategory(_, _, _, _)
findNewKeywordItemsInCategory(items, categoryName, currentKeywords, notifiedItemsSet) ==
    IF items = <<>> THEN <<>>
    ELSE LET item == Head(items)
             rest == findNewKeywordItemsInCategory(Tail(items), categoryName,
                                                   currentKeywords, notifiedItemsSet)
             kw == firstKeywordIn(item.name, currentKeywords)
         IN  IF ~hasStringName(item) THEN rest
             ELSE IF kw # 0 /\ (item.name \o <<124>> \o categoryName) \notin notifiedItemsSet
             THEN <<[name |-> item.name, category |-> categoryName,
                     matchedKeyword |-> currentKeywords[kw]]>> \o rest
             ELSE rest

\* lines 564-569: newlyFoundKeywordItems
RECURSIVE scheduledMatches(_, _)
scheduledMatches(stockData, notified) ==
    IF stockData = <<>> THEN <<>>
    ELSE findNewKeywordItemsInCategory(stockData[1].items,
                                       scheduledCategoryMap(stockData[1].key),
                                       keywordsToMonitor, notified)
         \o scheduledMatches(Tail(stockData), notified)

\* lines 581-583: the tokens of the match list added to the set
scheduledMarks(found, notified) ==
    notified \cup {found[i].name \o <<124>> \o found[i].category : i \in 1..Len(found)}

(***************************************************************************)
(* State.                                                                  *)
(***************************************************************************)
VARIABLES
    \* app.js module state
    isCheckRunning,                      \* the run lock
    previousOverallStockSignature,       \* signature stored by the last change
    notifiedItemsThisOverallStockCycle,  \* the notified set
    \* configuration read at start-up
    QUIET_HOURS_START,
    QUIET_HOURS_END,
    isInitialized,                       \* notifier.js: the Twilio client exists
    \* executions of checkStockAndNotify that passed the guard and are
    \* suspended at an await: pc is "fetch" or "send", found is the local
    \* newlyFoundKeywordItems
    running,
    \* what the last handler did
    lastStep,        \* which handler or branch ran
    effects,         \* the external calls it made
    lastStock,       \* the snapshot of the last cycle that obtained one
    lastMatches,     \* newlyFoundKeywordItems of the latest execution
    lastBodies,      \* the message bodies it passed to sendWhatsAppAlert
    lastHour,        \* the hour isQuietHours read in it, -1 if not called
    \* history
    epochSig,        \* <<>> or <<signature of the last successful cycle>>
    epochMatched,    \* bag: in how many cycles of the epoch a token was matched
    rematched,       \* tokens the latest execution removed by a reset and
                     \* matched again
    recovery,        \* "failed" after a null fetch; after the next snapshot,
                     \* whether it was the one of the cycle before the failure
    \* history kept by the epoch specification only (recording is constant)
    recording,       \* whether the four variables below are kept
    unsent,          \* tokens of the epoch whose send returned failure
    suppressed,      \* tokens of the epoch matched in a quiet-hours cycle
    dropped,         \* an invocation was skipped since the last cycle started
    tickAt,          \* <<minute, second>> of the last timer callback
    emptyGap,        \* the epoch that a snapshot without named items ended
    \* inputs and results of the function specifications
    sigIn, sigOut, quietHour, quietOut,
    matchIn, matchOut,       \* an item with a notified set; the pass over it
    scrapeIn, scrapeOut,     \* a response; what fetchStockData resolves to
    passIn, passOut,         \* a snapshot with a notified set; the match list
                             \* and the message of the cycle
    \* history kept by the specification of the interval variant
    epochSent        \* bag: in how many delivered alerts that were matched in
                     \* the epoch a token was included

progVars == <<isCheckRunning, previousOverallStockSignature,
              notifiedItemsThisOverallStockCycle>>

configVars == <<QUIET_HOURS_START, QUIET_HOURS_END, isInitialized>>

obsVars == <<lastStep, effects, lastStock, lastMatches, lastBodies, lastHour>>

histVars == <<epochSig, epochMatched, rematched, recovery>>

trackVars == <<recording, unsent, suppressed, dropped, tickAt, emptyGap>>

matchVars == <<matchIn, matchOut>>

scrapeVars == <<scrapeIn, scrapeOut>>

passVars == <<passIn, passOut>>

intervalVars == <<epochSent>>

fnVars == <<sigIn, sigOut, quietHour, quietOut, matchVars, scrapeVars, passVars,
            intervalVars>>

vars == <<progVars, configVars, running, obsVars, histVars, trackVars, fnVars>>

\* the hours at which the cycle specification lets isQuietHours run
CycleHours == {3, 12, 23}

\* the quiet-hours windows of the cycle specification: the default 0..9 of
\* config.js and an overnight window
CycleWindows == {<<0, 9>>, <<22, 7>>}

\* the function specifications at rest
MatchIdle == matchIn = <<>> /\ matchOut = <<>>

ScrapeIdle == scrapeIn = <<>> /\ scrapeOut = <<>>

PassIdle == passIn = <<>> /\ passOut = <<>>

\* no epoch was ended by a snapshot without named items
NoGap == [phase |-> "none", stock |-> <<>>]

\* the state after the module bodies of app.js and notifier.js have run
ProgramInit ==
    /\ isCheckRunning = FALSE
    /\ previousOverallStockSignature = <<>>
    /\ notifiedItemsThisOverallStockCycle = {}
    /\ running = <<>>
    /\ lastStep = "init"
    /\ effects = {}
    /\ lastStock = <<>>
    /\ lastMatches = <<>>
    /\ lastBodies = <<>>
    /\ lastHour = -1
    /\ epochSig = <<>>
    /\ epochMatched = EmptyBag
    /\ rematched = {}
    /\ recovery = "none"
    /\ unsent = {}
    /\ suppressed = {}
    /\ dropped = FALSE
    /\ tickAt = <<>>
    /\ emptyGap = NoGap
    /\ epochSent = EmptyBag

Init ==
    /\ ProgramInit
    /\ recording = FALSE
    /\ \E w \in CycleWindows :
          /\ QUIET_HOURS_START = w[1]
          /\ QUIET_HOURS_END = w[2]
    /\ isInitialized \in BOOLEAN
    /\ sigIn = <<>>
    /\ sigOut = <<>>
    /\ quietHour = 0
    /\ quietOut = <<>>
    /\ MatchIdle /\ ScrapeIdle /\ PassIdle

(***************************************************************************)
(* app.js: checkStockAndNotify and mainScheduler.                          *)
(***************************************************************************)
RemoveAt(q, i) == [j \in 1..(Len(q) - 1) |-> IF j < i THEN q[j] ELSE q[j + 1]]

\* the guard left out
skipCheck_Never == FALSE

\* no cycle run while the sender is not configured
skipCheck_OrNoSender == isCheckRunning \/ ~isInitialized

\* the guard `if (isCheckRunning) return`
skipCheck == isCheckRunning

\* the lock left as it is when an execution leaves
finallyReleased_LockKept == TRUE

\* the finally block: the value of isCheckRunning when an execution leaves
finallyReleased == FALSE

\* the new signature stored without clearing the notified set
resetOnChange_NoClear(sig, prev, notified) ==
    [signature |-> sig, notified |-> notified]

\* the marks of the items that are still in stock kept over the change
resetOnChange_KeepsPresent(sig, prev, notified) ==
    IF sig # prev
    THEN [signature |-> sig, notified |-> {t \in notified : includes(sig, t)}]
    ELSE [signature |-> prev, notified |-> notified]

\* a snapshot without named items taken for no snapshot
resetOnChange_IgnoresEmpty(sig, prev, notified) ==
    IF sig # prev /\ sig # <<>>
    THEN [signature |-> sig, notified |-> {}]
    ELSE [signature |-> prev, notified |-> notified]

\* lines 233-237: what the signature comparison leaves in the stored
\* signature and in the notified set
resetOnChange(sig, prev, notified) ==
    IF sig # prev
    THEN [signature |-> sig, notified |-> {}]
    ELSE [signature |-> prev, notified |-> notified]

\* the quiet-hours decision logged but not honoured
notifyBranch_QuietIgnored(found, quiet) ==
    IF Len(found) > 0 THEN "send" ELSE "noMatch"

\* the test `newlyFoundKeywordItems.length > 0` left out
notifyBranch_AlwaysSend(found, quiet) ==
    IF quiet THEN "quiet" ELSE "send"

\* lines 261-279: what the cycle does with its match list
notifyBranch(found, quiet) ==
    IF Len(found) > 0
    THEN IF quiet THEN "quiet" ELSE "send"
    ELSE "noMatch"

\* `*Grow A Garden Stock Alert!* \ud83c\udf31\n\nNew items in stock:\n`
messageHeader ==
    <<42, 71, 114, 111, 119, 32, 65, 32, 71, 97, 114, 100, 101, 110, 32,
      83, 116, 111, 99, 107, 32, 65, 108, 101, 114, 116, 33, 42, 32, 55356,
      57137, 10, 10, 78, 101, 119, 32, 105, 116, 101, 109, 115, 32, 105,
      110, 32, 115, 116, 111, 99, 107, 58, 10>>

\* `\n- *${item.name}* (Category: ${item.category})`
messageLine(item) ==
    <<10, 45, 32, 42>> \o item.name
        \o <<42, 32, 40, 67, 97, 116, 101, 103, 111, 114, 121, 58, 32>>
        \o item.category \o <<41>>

\* lines 262-265: the message handed to sendWhatsAppAlert
RECURSIVE messageBody(_)
messageBody(found) ==
    IF found = <<>> THEN messageHeader
    ELSE messageBody(SubSeq(found, 1, Len(found) - 1))
            \o messageLine(found[Len(found)])

\* one call for every match result, each with a message of its own
alertCalls_OnePerItem(found, branch) ==
    IF branch = "send"
    THEN [i \in 1..Len(found) |-> messageBody(<<found[i]>>)]
    ELSE <<>>

\* lines 261-271: the arguments of the calls of sendWhatsAppAlert a cycle
\* makes, in order: one call, after the forEach that builds the message
alertCalls(found, branch) ==
    IF branch = "send" THEN <<messageBody(found)>> ELSE <<>>

\* a set for a history variable: empty when no history is kept
Recorded(S) == IF recording THEN S ELSE {}

\* the tokens of a match list
Tokens(found) == {found[i].name \o <<124>> \o found[i].category : i \in 1..Len(found)}

\* the second left out of the test
atTargetInstant_AnySecond(minute, second) == minute \in TARGET_MINUTES

\* line 294: TARGET_MINUTES.includes(minute) && second === TARGET_SECONDS
atTargetInstant(minute, second) ==
    minute \in TARGET_MINUTES /\ second = TARGET_SECONDS

\* the guard placed inside the try block, so that the skipped invocation
\* runs the finally block
SchedulerTick_SkipReleases(minute, second) ==
    /\ IF atTargetInstant(minute, second)
       THEN IF isCheckRunning
            THEN /\ lastStep' = "skip"
                 /\ effects' = {}
                 /\ isCheckRunning' = FALSE
                 /\ dropped' = recording
                 /\ UNCHANGED <<running, lastMatches, lastBodies, lastHour, rematched>>
            ELSE /\ isCheckRunning' = TRUE
                 /\ running' = Append(running, [pc |-> "fetch", found |-> <<>>])
                 /\ lastStep' = "start"
                 /\ effects' = {"fetchStockData"}
                 /\ lastMatches' = <<>>
                 /\ lastBodies' = <<>>
                 /\ lastHour' = -1
                 /\ rematched' = {}
                 /\ dropped' = FALSE
       ELSE /\ lastStep' = "tick"
            /\ effects' = {}
            /\ UNCHANGED <<isCheckRunning, running, lastMatches, lastBodies, lastHour, rematched,
                           dropped>>
    /\ tickAt' = IF recording THEN <<minute, second>> ELSE tickAt
    /\ UNCHANGED <<previousOverallStockSignature, notifiedItemsThisOverallStockCycle,
                   configVars, lastStock, epochSig, epochMatched, recovery,
                   recording, unsent, suppressed, emptyGap, fnVars>>

\* the timer held up while an execution is suspended: the callbacks of that
\* time are not run
SchedulerTick_AwaitsCycle(minute, second) ==
    /\ running = <<>>
    /\ IF atTargetInstant(minute, second)
       THEN IF skipCheck
            THEN /\ lastStep' = "skip"
                 /\ effects' = {}
                 /\ dropped' = recording
                 /\ UNCHANGED <<isCheckRunning, running>>
                 /\ UNCHANGED <<lastMatches, lastBodies, lastHour, rematched>>
            ELSE /\ isCheckRunning' = TRUE
                 /\ running' = Append(running, [pc |-> "fetch", found |-> <<>>])
                 /\ lastStep' = "start"
                 /\ effects' = {"fetchStockData"}
                 /\ lastMatches' = <<>>
                 /\ lastBodies' = <<>>
                 /\ lastHour' = -1
                 /\ rematched' = {}
                 /\ dropped' = FALSE
       ELSE /\ lastStep' = "tick"
            /\ effects' = {}
            /\ UNCHANGED <<isCheckRunning, running, lastMatches, lastBodies, lastHour, rematched,
                           dropped>>
    /\ tickAt' = IF recording THEN <<minute, second>> ELSE tickAt
    /\ UNCHANGED <<previousOverallStockSignature, notifiedItemsThisOverallStockCycle,
                   configVars, lastStock, epochSig, epochMatched, recovery,
                   recording, unsent, suppressed, emptyGap, fnVars>>

\* the setInterval callback: at a target instant it calls
\* checkStockAndNotify, which returns at the guard or takes the lock and
\* runs up to `await fetchStockData()`
SchedulerTick(minute, second) ==
    /\ IF atTargetInstant(minute, second)
       THEN IF skipCheck
            THEN /\ lastStep' = "skip"
                 /\ effects' = {}
                 /\ dropped' = recording
                 /\ UNCHANGED <<isCheckRunning, running>>
                 /\ UNCHANGED <<lastMatches, lastBodies, lastHour, rematched>>
            \* a new execution: its newlyFoundKeywordItems does not exist yet
            ELSE /\ isCheckRunning' = TRUE
                 /\ running' = Append(running, [pc |-> "fetch", found |-> <<>>])
                 /\ lastStep' = "start"
                 /\ effects' = {"fetchStockData"}
                 /\ lastMatches' = <<>>
                 /\ lastBodies' = <<>>
                 /\ lastHour' = -1
                 /\ rematched' = {}
                 /\ dropped' = FALSE
       ELSE /\ lastStep' = "tick"
            /\ effects' = {}
            /\ UNCHANGED <<isCheckRunning, running, lastMatches, lastBodies, lastHour, rematched,
                           dropped>>
    /\ tickAt' = IF recording THEN <<minute, second>> ELSE tickAt
    /\ UNCHANGED <<previousOverallStockSignature, notifiedItemsThisOverallStockCycle,
                   configVars, lastStock, epochSig, epochMatched, recovery,
                   recording, unsent, suppressed, emptyGap, fnVars>>

\* the early return taken before the lock is released
FetchFails_NoFinally(i) ==
    /\ i \in 1..Len(running)
    /\ running[i].pc = "fetch"
    /\ running' = RemoveAt(running, i)
    /\ lastStep' = "fetchNull"
    /\ effects' = {}
    /\ recovery' = "failed"
    /\ UNCHANGED <<isCheckRunning, previousOverallStockSignature,
                   notifiedItemsThisOverallStockCycle,
                   configVars, lastStock, lastMatches, lastBodies, lastHour, epochSig,
                   epochMatched, rematched, trackVars, fnVars>>

\* null handled like a snapshot without items: the signature "" is compared
\* and stored
FetchFails_AsEmpty(i) ==
    /\ i \in 1..Len(running)
    /\ running[i].pc = "fetch"
    /\ running' = RemoveAt(running, i)
    /\ isCheckRunning' = FALSE
    /\ previousOverallStockSignature' = <<>>
    /\ notifiedItemsThisOverallStockCycle' =
          IF previousOverallStockSignature # <<>>
          THEN {} ELSE notifiedItemsThisOverallStockCycle
    /\ lastStep' = "fetchNull"
    /\ effects' = {}
    /\ recovery' = "failed"
    /\ UNCHANGED <<configVars, lastStock, lastMatches, lastBodies, lastHour, epochSig,
                   epochMatched, rematched, trackVars, fnVars>>

\* fetchStockData resolved to null: the early return, through finally
FetchFails(i) ==
    /\ i \in 1..Len(running)
    /\ running[i].pc = "fetch"
    /\ running' = RemoveAt(running, i)
    /\ isCheckRunning' = finallyReleased
    /\ lastStep' = "fetchNull"
    /\ effects' = {}
    /\ recovery' = "failed"
    /\ UNCHANGED <<previousOverallStockSignature, notifiedItemsThisOverallStockCycle,
                   configVars, lastStock, lastMatches, lastBodies, lastHour, epochSig,
                   epochMatched, rematched, trackVars, fnVars>>

\* the marks kept only when the alert is handed to the sender
notifiedAtExit_MarkOnSend(pass, reset, branch) ==
    IF branch = "quiet" THEN reset.notified ELSE pass.notified

\* the items handed to the sender left unmarked
notifiedAtExit_SentUnmarked(pass, reset, branch) ==
    IF branch = "send" THEN reset.notified ELSE pass.notified

\* line 255: the marks are made inside the matching pass, before the
\* quiet-hours test of line 267, so every branch leaves with them
notifiedAtExit(pass, reset, branch) == pass.notified

\* the history of a snapshot without named items: when such a snapshot ends
\* an epoch the snapshot of the epoch is kept through the cycles that see
\* no named items, and the first cycle that sees some is marked as seeing
\* that snapshot again or another one
gapAfter(sig, stock) ==
    IF sig = <<>>
    THEN IF previousOverallStockSignature # <<>>
         THEN [phase |-> "empty", stock |-> lastStock]
         ELSE emptyGap
    ELSE IF emptyGap.phase = "empty"
         THEN [phase |-> IF stock = emptyGap.stock
                         THEN "sameAfterEmpty" ELSE "otherAfterEmpty",
               stock |-> <<>>]
         ELSE NoGap

\* fetchStockData resolved to a stock object: the rest of the try block, up
\* to `await sendWhatsAppAlert(messageBody)` or to the end
FetchSucceeds(i, stock) ==
    /\ i \in 1..Len(running)
    /\ running[i].pc = "fetch"
    \* sig, reset and pass are bound as values, so that each is computed once
    /\ \E sig \in {signatureOf[stock]} :
       \E reset \in {resetOnChange(sig, previousOverallStockSignature,
                                   notifiedItemsThisOverallStockCycle)} :
       \E pass \in {MatchPass(VisitOrder(stock), reset.notified, <<>>)} :
       \E tokens \in {Tokens(pass.found)} :
          /\ previousOverallStockSignature' = reset.signature
          /\ lastStock' = stock
          /\ lastMatches' = pass.found
          /\ epochSig' = <<sig>>
          /\ epochMatched' =
                IF epochSig = <<sig>>
                THEN epochMatched (+) SetToBag(tokens)
                ELSE SetToBag(tokens)
          /\ rematched' =
                (notifiedItemsThisOverallStockCycle \ reset.notified) \cap tokens
          /\ recovery' =
                IF recovery = "failed"
                THEN IF stock = lastStock THEN "sameAfterFail" ELSE "otherAfterFail"
                ELSE "none"
          \* isQuietHours() reads the clock only when there are matches
          /\ \E hour \in IF Len(pass.found) > 0 THEN CycleHours ELSE {-1} :
             \E branch \in
                  {notifyBranch(pass.found,
                      /\ hour >= 0
                      /\ isQuietHours(hour, QUIET_HOURS_START, QUIET_HOURS_END))} :
                /\ lastHour' = hour
                /\ lastBodies' = alertCalls(pass.found, branch)
                /\ notifiedItemsThisOverallStockCycle' =
                      notifiedAtExit(pass, reset, branch)
                /\ IF recording
                   THEN /\ suppressed' =
                              (IF epochSig = <<sig>> THEN suppressed ELSE {})
                                 \cup (IF branch = "quiet" THEN tokens ELSE {})
                        /\ unsent' =
                              (IF epochSig = <<sig>> THEN unsent ELSE {})
                                 \cup (IF branch = "send" /\ ~isInitialized
                                       THEN tokens ELSE {})
                        /\ emptyGap' = gapAfter(sig, stock)
                   ELSE UNCHANGED <<suppressed, unsent, emptyGap>>
                /\ IF branch \in {"noMatch", "quiet"}
                   THEN /\ lastStep' = branch
                        /\ effects' = {}
                        /\ running' = RemoveAt(running, i)
                        /\ isCheckRunning' = finallyReleased
                   ELSE IF ~isInitialized
                   \* notifier.js: sendWhatsAppAlert returns false at once
                   THEN /\ lastStep' = "sendRefused"
                        /\ effects' = {"sendWhatsAppAlert"}
                        /\ running' = RemoveAt(running, i)
                        /\ isCheckRunning' = finallyReleased
                   ELSE /\ lastStep' = "sendCall"
                        /\ effects' = {"sendWhatsAppAlert"}
                        /\ running' = [running EXCEPT
                               ![i] = [pc |-> "send", found |-> pass.found]]
                        /\ UNCHANGED isCheckRunning
    /\ UNCHANGED <<configVars, recording, dropped, tickAt, fnVars>>

\* the skipped invocation kept and run when the cycle ends
SendReturns_RunsSkipped(i, success) ==
    /\ i \in 1..Len(running)
    /\ running[i].pc = "send"
    /\ IF dropped
       THEN /\ running' = [running EXCEPT ![i] = [pc |-> "fetch", found |-> <<>>]]
            /\ isCheckRunning' = TRUE
            /\ effects' = {"fetchStockData"}
       ELSE /\ running' = RemoveAt(running, i)
            /\ isCheckRunning' = finallyReleased
            /\ effects' = {}
    /\ lastStep' = IF success THEN "sendOk" ELSE "sendFail"
    /\ unsent' = IF success THEN unsent
                 ELSE unsent \cup Recorded(Tokens(running[i].found))
    /\ UNCHANGED <<previousOverallStockSignature, notifiedItemsThisOverallStockCycle,
                   configVars, lastStock, lastMatches, lastBodies, lastHour, histVars, fnVars>>
    /\ UNCHANGED <<recording, suppressed, dropped, tickAt, emptyGap>>

\* the marks of the cycle taken back when the send failed
SendReturns_RollsBack(i, success) ==
    /\ i \in 1..Len(running)
    /\ running[i].pc = "send"
    /\ running' = RemoveAt(running, i)
    /\ isCheckRunning' = finallyReleased
    /\ lastStep' = IF success THEN "sendOk" ELSE "sendFail"
    /\ effects' = {}
    /\ unsent' = IF success THEN unsent
                 ELSE unsent \cup Recorded(Tokens(running[i].found))
    /\ notifiedItemsThisOverallStockCycle' =
          IF success THEN notifiedItemsThisOverallStockCycle
          ELSE notifiedItemsThisOverallStockCycle \ Tokens(running[i].found)
    /\ UNCHANGED <<previousOverallStockSignature,
                   configVars, lastStock, lastMatches, lastBodies, lastHour, histVars, fnVars>>
    /\ UNCHANGED <<recording, suppressed, dropped, tickAt, emptyGap>>

\* twilioClient.messages.create settled: sendWhatsAppAlert resolves to true
\* or false, the result is logged and the execution leaves through finally
SendReturns(i, success) ==
    /\ i \in 1..Len(running)
    /\ running[i].pc = "send"
    /\ running' = RemoveAt(running, i)
    /\ isCheckRunning' = finallyReleased
    /\ lastStep' = IF success THEN "sendOk" ELSE "sendFail"
    /\ effects' = {}
    /\ unsent' = IF success THEN unsent
                 ELSE unsent \cup Recorded(Tokens(running[i].found))
    /\ UNCHANGED <<previousOverallStockSignature, notifiedItemsThisOverallStockCycle,
                   configVars, lastStock, lastMatches, lastBodies, lastHour, histVars, fnVars>>
    /\ UNCHANGED <<recording, suppressed, dropped, tickAt, emptyGap>>

\* an exception raised in the try block when an execution resumes: the catch
\* clause logs it and the execution leaves through finally
CycleThrows(i) ==
    /\ i \in 1..Len(running)
    /\ running' = RemoveAt(running, i)
    /\ isCheckRunning' = finallyReleased
    /\ lastStep' = "exception"
    /\ effects' = {}
    /\ UNCHANGED unsent
    /\ UNCHANGED <<previousOverallStockSignature, notifiedItemsThisOverallStockCycle,
                   configVars, lastStock, lastMatches, lastBodies, lastHour, histVars, fnVars>>
    /\ UNCHANGED <<recording, suppressed, dropped, tickAt, emptyGap>>

Next ==
    \/ \E minute \in {2, 3}, second \in {29, 30} : SchedulerTick(minute, second)
    \/ \E i \in 1..Len(running) : FetchFails(i)
    \/ \E i \in 1..Len(running), stock \in CycleStocks : FetchSucceeds(i, stock)
    \/ \E i \in 1..Len(running), success \in BOOLEAN : SendReturns(i, success)
    \/ \E i \in 1..Len(running) : CycleThrows(i)

Spec == Init /\ [][Next]_vars

(***************************************************************************)
(* The cycles again, with the history of the epoch kept: which tokens had  *)
(* their alert suppressed or refused, whether an invocation was skipped    *)
(* and when the timer last fired.                                          *)
(***************************************************************************)
EpochStocks == StockObjects(ItemNames, MaxEpochItems)

EpochInit ==
    /\ ProgramInit
    /\ recording = TRUE
    /\ \E w \in CycleWindows :
          /\ QUIET_HOURS_START = w[1]
          /\ QUIET_HOURS_END = w[2]
    /\ isInitialized \in BOOLEAN
    /\ sigIn = <<>>
    /\ sigOut = <<>>
    /\ quietHour = 0
    /\ quietOut = <<>>
    /\ MatchIdle /\ ScrapeIdle /\ PassIdle

EpochNext ==
    \/ \E minute \in {2, 3}, second \in {29, 30} : SchedulerTick(minute, second)
    \/ \E i \in 1..Len(running) : FetchFails(i)
    \/ \E i \in 1..Len(running), stock \in EpochStocks : FetchSucceeds(i, stock)
    \/ \E i \in 1..Len(running), success \in BOOLEAN : SendReturns(i, success)
    \/ \E i \in 1..Len(running) : CycleThrows(i)

SpecEpoch == EpochInit /\ [][EpochNext]_vars

(***************************************************************************)
(* The cycles under the assumption that every call of the provider and of  *)
(* the sender settles: axios.get carries a timeout, so await fetchStockData *)
(* resumes; the promise of messages.create is assumed to settle.           *)
(***************************************************************************)
\* the promise of fetchStockData settles for some suspended execution
ProviderCompletes ==
    \E i \in 1..Len(running) :
        \/ FetchFails(i)
        \/ \E stock \in EpochStocks : FetchSucceeds(i, stock)

\* the promise of sendWhatsAppAlert settles for some suspended execution
SenderCompletes ==
    \E i \in 1..Len(running), success \in BOOLEAN : SendReturns(i, success)

SpecFair ==
    /\ Init
    /\ [][EpochNext]_vars
    /\ WF_vars(ProviderCompletes)
    /\ WF_vars(SenderCompletes)

(***************************************************************************)
(* The cycles with a sender whose call never settles: messages.create is   *)
(* awaited without a timeout, so an execution suspended at the send never  *)
(* resumes, neither with a result nor with an exception.                   *)
(***************************************************************************)
\* the send given a timeout: it settles with failure
HangNext_SendTimesOut ==
    \/ \E minute \in {2, 3}, second \in {29, 30} : SchedulerTick(minute, second)
    \/ \E i \in 1..Len(running) : FetchFails(i)
    \/ \E i \in 1..Len(running), stock \in EpochStocks : FetchSucceeds(i, stock)
    \/ \E i \in 1..Len(running) : running[i].pc = "fetch" /\ CycleThrows(i)
    \/ \E i \in 1..Len(running) : SendReturns(i, FALSE)

HangNext ==
    \/ \E minute \in {2, 3}, second \in {29, 30} : SchedulerTick(minute, second)
    \/ \E i \in 1..Len(running) : FetchFails(i)
    \/ \E i \in 1..Len(running), stock \in EpochStocks : FetchSucceeds(i, stock)
    \/ \E i \in 1..Len(running) : running[i].pc = "fetch" /\ CycleThrows(i)

SpecHang == Init /\ [][HangNext]_vars

(***************************************************************************)
(* The timer over the hour: the callback runs once in every second, the    *)
(* first one at any instant; a cycle that was started ends with a failed   *)
(* fetch.                                                                  *)
(***************************************************************************)
\* the <<minute, second>> one second after an instant
SecondAfter(instant) ==
    LET n == (60 * instant[1] + instant[2] + 1) % 3600
    IN  <<n \div 60, n % 60>>

TimerInit ==
    /\ ProgramInit
    /\ recording = TRUE
    /\ QUIET_HOURS_START = 0
    /\ QUIET_HOURS_END = 9
    /\ isInitialized = TRUE
    /\ sigIn = <<>>
    /\ sigOut = <<>>
    /\ quietHour = 0
    /\ quietOut = <<>>
    /\ MatchIdle /\ ScrapeIdle /\ PassIdle

TimerNext ==
    \/ \E instant \in IF tickAt = <<>> THEN (0..59) \X (0..59)
                       ELSE {SecondAfter(tickAt)} :
          SchedulerTick(instant[1], instant[2])
    \/ \E i \in 1..Len(running) : FetchFails(i)

SpecTimer == TimerInit /\ [][TimerNext]_vars

(***************************************************************************)
(* The quiet-hours decision as a function of hour, start and end.          *)
(***************************************************************************)
QuietInit ==
    /\ ProgramInit
    /\ recording = FALSE
    /\ QUIET_HOURS_START \in 0..23
    /\ QUIET_HOURS_END \in 0..23
    /\ isInitialized = TRUE
    /\ sigIn = <<>>
    /\ sigOut = <<>>
    /\ quietHour \in 0..23
    /\ quietOut = <<>>
    /\ MatchIdle /\ ScrapeIdle /\ PassIdle

EvalQuietHours ==
    /\ quietOut = <<>>
    /\ quietOut' = <<isQuietHours(quietHour, QUIET_HOURS_START, QUIET_HOURS_END)>>
    /\ UNCHANGED <<progVars, configVars, running, obsVars, histVars, trackVars,
                   sigIn, sigOut, quietHour, matchVars, scrapeVars, passVars,
                   intervalVars>>

QuietNext == EvalQuietHours

SpecQuiet == QuietInit /\ [][QuietNext]_vars

(***************************************************************************)
(* The quiet-hours decision of the scheduled variant of FetchData.js on    *)
(* the same inputs: the hour of the time object, and the two constants of  *)
(* lines 375-376 as the environment sets them.                             *)
(***************************************************************************)
\* lines 488-494
scheduledIsQuietHours(currentTime) ==
    LET currentHour == currentTime.hour
    IN  IF currentHour >= QUIET_HOURS_START /\ currentHour < QUIET_HOURS_END
        THEN TRUE
        ELSE FALSE

EvalScheduledQuietHours ==
    /\ quietOut = <<>>
    /\ quietOut' = <<scheduledIsQuietHours([hour |-> quietHour])>>
    /\ UNCHANGED <<progVars, configVars, running, obsVars, histVars, trackVars,
                   sigIn, sigOut, quietHour, matchVars, scrapeVars, passVars,
                   intervalVars>>

ScheduledQuietNext == EvalScheduledQuietHours

SpecScheduledQuiet == QuietInit /\ [][ScheduledQuietNext]_vars

(***************************************************************************)
(* The signature as a function of the snapshot: two snapshots are drawn    *)
(* and their signatures computed.                                          *)
(***************************************************************************)
SigStocks == StockObjects(SigItemNames, MaxSigItems)

\* the sequences that hold the same elements as q, each as often
Reorderings(q) ==
    {[i \in 1..Len(q) |-> q[p[i]]] : p \in Permutations(1..Len(q))}

\* the stock objects with the same items in every category as stock: the
\* properties in any order and each list in any order
Rearrangements(stock) ==
    { [i \in 1..3 |-> [key |-> stock[p[i]].key, items |-> lists[p[i]]]] :
        p \in Permutations(1..3),
        lists \in Reorderings(stock[1].items) \X Reorderings(stock[2].items)
                    \X Reorderings(stock[3].items) }

SigInit ==
    /\ ProgramInit
    /\ recording = FALSE
    /\ QUIET_HOURS_START = 0
    /\ QUIET_HOURS_END = 9
    /\ isInitialized = TRUE
    /\ \E a \in SigStocks :
          \E b \in SigStocks \cup Rearrangements(a) : sigIn = <<a, b>>
    /\ sigOut = <<>>
    /\ quietHour = 0
    /\ quietOut = <<>>
    /\ MatchIdle /\ ScrapeIdle /\ PassIdle

ComputeSignatures ==
    /\ sigOut = <<>>
    /\ sigOut' = <<currentOverallStockSignature(sigIn[1]),
                   currentOverallStockSignature(sigIn[2])>>
    /\ UNCHANGED <<progVars, configVars, running, obsVars, histVars, trackVars,
                   sigIn, quietHour, quietOut, matchVars, scrapeVars, passVars,
                   intervalVars>>

SigNext == ComputeSignatures

SpecSig == SigInit /\ [][SigNext]_vars

(***************************************************************************)
(* fetchStockData as a function of the response.                           *)
(***************************************************************************)
\* h2 texts of a page: the five the scraper looks for and another one
PageHeadings ==
    {"SEEDS STOCK", "EGG STOCK", "GEAR STOCK", "HONEY STOCK", "COSMETICS STOCK",
     "WEATHER"}

\* span texts: a name, a name inside white space, white space alone
PageTexts == {Kiwi, <<32>> \o Carrot \o <<10>>, <<32>>}

PageSections ==
    {[heading |-> h, items |-> q] : h \in PageHeadings, q \in SeqsUpTo(PageTexts, 1)}

Responses ==
    {[kind |-> k, status |-> 0, sections |-> <<>>] : k \in {"networkError", "timeout"}}
    \cup {[kind |-> "status", status |-> c, sections |-> <<>>] : c \in {403, 404, 500}}
    \cup {[kind |-> "page", status |-> 200, sections |-> q] :
             q \in SeqsUpTo(PageSections, MaxSections)}

ScrapeInit ==
    /\ ProgramInit
    /\ recording = FALSE
    /\ QUIET_HOURS_START = 0
    /\ QUIET_HOURS_END = 9
    /\ isInitialized = TRUE
    /\ sigIn = <<>>
    /\ sigOut = <<>>
    /\ quietHour = 0
    /\ quietOut = <<>>
    /\ MatchIdle /\ PassIdle
    /\ scrapeIn \in Responses
    /\ scrapeOut = <<>>

RunFetchStockData ==
    /\ scrapeOut = <<>>
    /\ scrapeOut' = <<fetchStockData(scrapeIn)>>
    /\ UNCHANGED <<progVars, configVars, running, obsVars, histVars, trackVars,
                   sigIn, sigOut, quietHour, quietOut, matchVars, scrapeIn, passVars,
                   intervalVars>>

ScrapeNext == RunFetchStockData

SpecScrape == ScrapeInit /\ [][ScrapeNext]_vars

(***************************************************************************)
(* The matching pass as a function of one item and the notified set.       *)
(***************************************************************************)
MatchInit ==
    /\ ProgramInit
    /\ recording = FALSE
    /\ QUIET_HOURS_START = 0
    /\ QUIET_HOURS_END = 9
    /\ isInitialized = TRUE
    /\ sigIn = <<>>
    /\ sigOut = <<>>
    /\ quietHour = 0
    /\ quietOut = <<>>
    /\ \E name \in MatchNames, catKey \in {"seedsStock", "eggStock", "gearStock"} :
          \E notified \in {{}, {itemIdentifier(name, catKey)},
                            {itemIdentifier(name, "eggStock")},
                            {itemIdentifier(Kiwi, catKey)}} :
             matchIn = [name |-> name, catKey |-> catKey, notified |-> notified]
    /\ matchOut = <<>>
    /\ ScrapeIdle /\ PassIdle

RunMatchPass ==
    /\ matchOut = <<>>
    /\ matchOut' = <<MatchPass(<<[name |-> matchIn.name, catKey |-> matchIn.catKey]>>,
                               matchIn.notified, <<>>)>>
    /\ UNCHANGED <<progVars, configVars, running, obsVars, histVars, trackVars,
                   sigIn, sigOut, quietHour, quietOut, matchIn, scrapeVars, passVars,
                   intervalVars>>

MatchNext == RunMatchPass

SpecMatch == MatchInit /\ [][MatchNext]_vars

(***************************************************************************)
(* The synchronous part of a cycle as a function of the snapshot and of    *)
(* the notified set the matching pass starts with: signature, match list,  *)
(* notified set and message.                                               *)
(***************************************************************************)
PassStocks == StockObjects(PassItemNames, MaxPassItems)

PassInit ==
    /\ ProgramInit
    /\ recording = FALSE
    /\ QUIET_HOURS_START = 0
    /\ QUIET_HOURS_END = 9
    /\ isInitialized = TRUE
    /\ sigIn = <<>>
    /\ sigOut = <<>>
    /\ quietHour = 0
    /\ quietOut = <<>>
    /\ MatchIdle /\ ScrapeIdle
    /\ \E stock \in PassStocks :
          \* the set is empty after the reset of lines 233-237; in a cycle
          \* that finds the signature unchanged it holds what the pass of
          \* the cycle before, on the same tokens, left in it
          \E notified \in {{}, MatchPass(VisitOrder(stock), {}, <<>>).notified} :
             passIn = [stock |-> stock, notified |-> notified]
    /\ passOut = <<>>

\* lines 220-231 and 239-265 on the snapshot
RunPass ==
    /\ passOut = <<>>
    /\ \E pass \in {MatchPass(VisitOrder(passIn.stock), passIn.notified, <<>>)} :
          passOut' = <<[signature |-> currentOverallStockSignature(passIn.stock),
                        found |-> pass.found,
                        notified |-> pass.notified,
                        body |-> IF Len(pass.found) > 0
                                 THEN messageBody(pass.found) ELSE <<>>]>>
    /\ UNCHANGED <<progVars, configVars, running, obsVars, histVars, trackVars,
                   sigIn, sigOut, quietHour, quietOut, matchVars, scrapeVars, passIn,
                   intervalVars>>

PassNext == RunPass

SpecPass == PassInit /\ [][PassNext]_vars

(***************************************************************************)
(* The same part of a cycle of the scheduled variant of FetchData.js       *)
(* (lines 537-583), on the stock data of its API: the three arrays hold    *)
(* nulls, objects without a name and objects whose name is a string.       *)
(***************************************************************************)
\* line 537
categories == <<"seedsStock", "eggStock", "gearStock">>

ScheduledItems == {NullItem, NoNameItem} \cup {StringItem(n) : n \in {<<>>, BugEgg, Carrot}}

ScheduledStocks ==
    { << [key |-> categories[1], items |-> a],
         [key |-> categories[2], items |-> b],
         [key |-> categories[3], items |-> c] >> :
        <<a, b, c>> \in
            { t \in SeqsUpTo(ScheduledItems, MaxPassItems)
                        \X SeqsUpTo(ScheduledItems, MaxPassItems)
                        \X SeqsUpTo(ScheduledItems, MaxPassItems) :
                Len(t[1]) + Len(t[2]) + Len(t[3]) <= MaxPassItems } }

ScheduledPassInit ==
    /\ ProgramInit
    /\ recording = FALSE
    /\ QUIET_HOURS_START = 0
    /\ QUIET_HOURS_END = 9
    /\ isInitialized = TRUE
    /\ sigIn = <<>>
    /\ sigOut = <<>>
    /\ quietHour = 0
    /\ quietOut = <<>>
    /\ MatchIdle /\ ScrapeIdle
    /\ \E stock \in ScheduledStocks :
          \* empty after the reset of lines 554-562, or what the cycle before
          \* marked on the same tokens
          \E notified \in {{}, scheduledMarks(scheduledMatches(stock, {}), {})} :
             passIn = [stock |-> stock, notified |-> notified]
    /\ passOut = <<>>

\* lines 540-552, 564-569 and 581-583 on the stock data
RunScheduledPass ==
    /\ passOut = <<>>
    /\ \E found \in {scheduledMatches(passIn.stock, passIn.notified)} :
          passOut' = <<[signature |-> scheduledSignature(passIn.stock),
                        found |-> found,
                        notified |-> scheduledMarks(found, passIn.notified)]>>
    /\ UNCHANGED <<progVars, configVars, running, obsVars, histVars, trackVars,
                   sigIn, sigOut, quietHour, quietOut, matchVars, scrapeVars, passIn,
                   intervalVars>>

ScheduledPassNext == RunScheduledPass

SpecScheduledPass == ScheduledPassInit /\ [][ScheduledPassNext]_vars

(***************************************************************************)
(* FetchData.js, the interval variant (lines 175-346): checkStockAndNotify *)
(* is called once at start and then by setInterval every five minutes.     *)
(* There is no run lock and axios.get has no timeout, so a call can start  *)
(* while earlier ones are suspended at the fetch or at the send.  The      *)
(* module variables of lines 232-233 are previousOverallStockSignature and *)
(* notifiedItemsThisOverallStockCycle; isCheckRunning is not used.         *)
(***************************************************************************)
\* lines 196-200
intervalKeywordsToMonitor == Append(keywordsToMonitor,
    <<71, 111, 100, 108, 121, 32, 83, 112, 114, 105, 110, 107, 108, 101, 114>>)  \* 'Godly Sprinkler'

\* the labels written into lines 277-279 and 293-299
intervalLabel(catKey) ==
    CASE catKey = "seedsStock" -> <<83, 101, 101, 100>>   \* 'Seed'
      [] catKey = "eggStock" -> <<69, 103, 103>>           \* 'Egg'
      [] catKey = "gearStock" -> <<71, 101, 97, 114>>      \* 'Gear'

\* lines 276-279: one token for every item, seeds, eggs, gear
RECURSIVE intervalTokens(_)
intervalTokens(stockData) ==
    IF stockData = <<>> THEN <<>>
    ELSE [i \in 1..Len(stockData[1].items) |->
             stockData[1].items[i].name \o <<124>> \o intervalLabel(stockData[1].key)]
         \o intervalTokens(Tail(stockData))

\* line 280
intervalSignature(stockData) == join(sort(intervalTokens(stockData)))

IntervalItemNames == {BugEgg, Carrot}

IntervalStocks == StockObjects(IntervalItemNames, MaxIntervalItems)

\* intervalSignature tabulated over the snapshots of the interval
\* specification
intervalSignatureOf == [stockData \in IntervalStocks |-> intervalSignature(stockData)]

\* lines 249-260 tabulated over the names in use, with keywordsToMonitor as
\* currentKeywords, which it is at the three calls of lines 293-299
intervalKeywordOf ==
    [itemName \in IntervalItemNames |-> firstKeywordIn(itemName, intervalKeywordsToMonitor)]

\* lines 236-263: the filter of the interval variant, which skips an item
\* whose name is falsy
RECURSIVE intervalFindNewKeywordItemsInCategory(_, _, _)
intervalFindNewKeywordItemsInCategory(items, categoryName, notifiedItemsSet) ==
    IF items = <<>> THEN <<>>
    ELSE LET itemName == Head(items).name
             rest == intervalFindNewKeywordItemsInCategory(Tail(items), categoryName,
                                                           notifiedItemsSet)
             kw == intervalKeywordOf[itemName]
         IN  IF itemName = <<>> THEN rest
             ELSE IF kw # 0 /\ (itemName \o <<124>> \o categoryName) \notin notifiedItemsSet
             THEN <<[name |-> itemName, category |-> categoryName,
                     matchedKeyword |-> intervalKeywordsToMonitor[kw]]>> \o rest
             ELSE rest

\* lines 290-300: newlyFoundKeywordItems
RECURSIVE intervalMatches(_, _)
intervalMatches(stockData, notified) ==
    IF stockData = <<>> THEN <<>>
    ELSE intervalFindNewKeywordItemsInCategory(stockData[1].items,
                                               intervalLabel(stockData[1].key), notified)
         \o intervalMatches(Tail(stockData), notified)

\* the set after the awaited messages.create has settled, with the tokens
\* added whether it resolved or threw
intervalMarksAfterSend_Always(found, notified, sent) == notified \cup Tokens(found)

\* lines 311-324: the tokens of the alert are added after the awaited
\* messages.create has resolved; when it throws, the catch clause logs
intervalMarksAfterSend(found, notified, sent) ==
    IF sent THEN notified \cup Tokens(found) ELSE notified

\* line 336: the timer is set up only when the Twilio client exists
IntervalInit ==
    /\ ProgramInit
    /\ recording = TRUE
    /\ QUIET_HOURS_START = 0
    /\ QUIET_HOURS_END = 9
    /\ isInitialized = TRUE
    /\ sigIn = <<>>
    /\ sigOut = <<>>
    /\ quietHour = 0
    /\ quietOut = <<>>
    /\ MatchIdle /\ ScrapeIdle /\ PassIdle

\* lines 344-345: the first call or a firing of the interval timer starts
\* an execution, which runs to the await of line 269
intervalTimerFires ==
    /\ Len(running) < MaxOverlap
    /\ running' = Append(running, [pc |-> "fetch", found |-> <<>>, inEpoch |-> FALSE])
    /\ lastStep' = "start"
    /\ effects' = {"axios.get"}
    /\ UNCHANGED <<progVars, configVars, lastStock, lastMatches, lastBodies, lastHour,
                   histVars, trackVars, sigIn, sigOut, quietHour, quietOut, matchVars,
                   scrapeVars, passVars, intervalVars>>

\* lines 271-274: fetchGrowAGardenStock resolved to null
intervalFetchFails(i) ==
    /\ i \in 1..Len(running)
    /\ running[i].pc = "fetch"
    /\ running' = RemoveAt(running, i)
    /\ lastStep' = "fetchNull"
    /\ effects' = {}
    /\ UNCHANGED <<progVars, configVars, lastStock, lastMatches, lastBodies, lastHour,
                   histVars, trackVars, sigIn, sigOut, quietHour, quietOut, matchVars,
                   scrapeVars, passVars, intervalVars>>

\* lines 276-310: the execution resumes with stock data, computes the
\* signature, resets on a change, matches, and with matches builds the
\* message and suspends at messages.create.  A reset ends the epoch of the
\* executions suspended at their send.
intervalFetchSucceeds(i, stockData) ==
    /\ i \in 1..Len(running)
    /\ running[i].pc = "fetch"
    /\ \E sig \in {intervalSignatureOf[stockData]} :
       \E changed \in {sig # previousOverallStockSignature} :
       \E cleared \in {IF changed THEN {} ELSE notifiedItemsThisOverallStockCycle} :
       \E found \in {intervalMatches(stockData, cleared)} :
          /\ previousOverallStockSignature' = sig
          /\ notifiedItemsThisOverallStockCycle' = cleared
          /\ epochSent' = IF changed THEN EmptyBag ELSE epochSent
          /\ unsent' = IF changed THEN {} ELSE unsent
          /\ running' =
                LET others == [j \in 1..Len(running) |->
                                  IF changed /\ running[j].pc = "send"
                                  THEN [running[j] EXCEPT !.inEpoch = FALSE]
                                  ELSE running[j]]
                IN  IF found = <<>> THEN RemoveAt(others, i)
                    ELSE [others EXCEPT ![i] = [pc |-> "send", found |-> found,
                                                inEpoch |-> TRUE]]
          /\ lastStep' = IF found = <<>> THEN "noMatch" ELSE "sendCall"
          /\ effects' = IF found = <<>> THEN {} ELSE {"messages.create"}
    /\ UNCHANGED <<isCheckRunning, configVars, lastStock, lastMatches, lastBodies,
                   lastHour, histVars,
                   recording, suppressed, dropped, tickAt, emptyGap,
                   sigIn, sigOut, quietHour, quietOut, matchVars, scrapeVars, passVars>>

\* lines 312-324: messages.create settled; sent says whether it resolved
intervalSendReturns(i, sent) ==
    /\ i \in 1..Len(running)
    /\ running[i].pc = "send"
    /\ running' = RemoveAt(running, i)
    /\ notifiedItemsThisOverallStockCycle' =
          intervalMarksAfterSend(running[i].found, notifiedItemsThisOverallStockCycle, sent)
    /\ epochSent' = IF sent /\ running[i].inEpoch
                    THEN epochSent (+) SetToBag(Tokens(running[i].found))
                    ELSE epochSent
    \* the tokens of the epoch whose send failed and that no other alert
    \* has delivered
    /\ unsent' = IF sent THEN unsent \ Tokens(running[i].found)
                 ELSE IF running[i].inEpoch
                 THEN unsent \cup (Tokens(running[i].found)
                                      \ notifiedItemsThisOverallStockCycle)
                 ELSE unsent
    /\ lastStep' = IF sent THEN "sendOk" ELSE "sendFail"
    /\ effects' = {}
    /\ UNCHANGED <<isCheckRunning, previousOverallStockSignature, configVars, lastStock,
                   lastMatches, lastBodies, lastHour, histVars,
                   recording, suppressed, dropped, tickAt, emptyGap,
                   sigIn, sigOut, quietHour, quietOut, matchVars, scrapeVars, passVars>>

IntervalNext ==
    \/ intervalTimerFires
    \/ \E i \in 1..Len(running) : intervalFetchFails(i)
    \/ \E i \in 1..Len(running), stockData \in IntervalStocks :
          intervalFetchSucceeds(i, stockData)
    \/ \E i \in 1..Len(running), sent \in BOOLEAN : intervalSendReturns(i, sent)

SpecInterval == IntervalInit /\ [][IntervalNext]_vars

(***************************************************************************)
(* Properties.                                                             *)
(***************************************************************************)
\* the labels of the steps in which a cycle obtained a snapshot
FetchOkSteps == {"noMatch", "quiet", "sendRefused", "sendCall"}

\* the tokens of the named items of a snapshot that contain a keyword,
\* tabulated over the snapshots of the cycle specification
keywordTokensOf ==
    [stock \in CycleStocks |->
        LET visits == Named(VisitOrder(stock))
        IN  {itemIdentifier(visits[i].name, visits[i].catKey) :
                i \in {j \in 1..Len(visits) : keywordIndexOf[visits[j].name] # 0}}]

KeywordTokens(stock) == keywordTokensOf[stock]

\* the bag of the elements of a sequence
SeqToBag(q) ==
    [x \in {q[i] : i \in 1..Len(q)} |-> Cardinality({i \in 1..Len(q) : q[i] = x})]

\* the item list a stock object holds under a key
ItemsUnder(stock, key) ==
    LET i == CHOOSE j \in 1..Len(stock) : stock[j].key = key
    IN  stock[i].items

\* C1: at most one execution of checkStockAndNotify is past the guard at
\* any time, whatever the order of ticks, provider and sender completions.
C1_AtMostOneCycleInFlight == Len(running) <= 1

\* an invocation arrived while a cycle was suspended at the send call
C1_Witness ==
    /\ Len(running) = 1
    /\ running[1].pc = "send"
    /\ lastStep = "skip"

\* C2: within one epoch (consecutive successful cycles with the same
\* signature) every name|category token is in the match list of at most one
\* cycle.
C2_OncePerEpoch ==
    \A t \in BagToSet(epochMatched) : CopiesIn(t, epochMatched) <= 1

\* a later cycle of an epoch in which a token was matched found nothing new
C2_Witness ==
    /\ BagToSet(epochMatched) # {}
    /\ lastStep = "noMatch"
    /\ KeywordTokens(lastStock) # {}

\* C3: a cycle whose signature differs from the stored one stores the new
\* signature and empties the notified set before matching, so every keyword
\* item of the new snapshot, notified before or not, is matched and, outside
\* quiet hours, handed to the sender.
C3_ResetOnSignatureChange ==
    [][ ( /\ lastStep' \in FetchOkSteps
          /\ signatureOf[lastStock'] # previousOverallStockSignature )
        => ( /\ previousOverallStockSignature' = signatureOf[lastStock']
             /\ Tokens(lastMatches') = KeywordTokens(lastStock')
             /\ notifiedItemsThisOverallStockCycle' = KeywordTokens(lastStock')
             /\ ( ( /\ lastMatches' # <<>>
                    /\ ~isQuietHours(lastHour', QUIET_HOURS_START, QUIET_HOURS_END) )
                  => "sendWhatsAppAlert" \in effects' ) ) ]_vars

\* a token notified in the earlier epoch was matched again and sent
C3_Witness ==
    /\ rematched # {}
    /\ lastStep = "sendCall"

\* C4: every step in which an execution leaves checkStockAndNotify leaves
\* the run lock false, whichever exit it takes.
C4_LockReleasedOnExit ==
    [][ Len(running') < Len(running) => isCheckRunning' = FALSE ]_vars

\* a cycle whose send failed has left and the lock is free
C4_Witness ==
    /\ lastStep = "sendFail"
    /\ running = <<>>
    /\ ~isCheckRunning

\* C5: an invocation made while the run lock is held calls neither the
\* provider nor the sender and changes neither the signature, the notified
\* set, the lock nor the suspended cycle.
C5_SkippedInvocationIsNoOp ==
    [][ (lastStep' \in {"skip", "start"} /\ isCheckRunning)
        => ( /\ lastStep' = "skip"
             /\ effects' = {}
             /\ UNCHANGED <<isCheckRunning, previousOverallStockSignature,
                            notifiedItemsThisOverallStockCycle, running>> ) ]_vars

\* an invocation was skipped while a cycle waited for the provider
C5_Witness ==
    /\ lastStep = "skip"
    /\ isCheckRunning
    /\ Len(running) = 1
    /\ running[1].pc = "fetch"

\* C6: a cycle whose fetch returns null changes neither the signature nor
\* the notified set and calls no sender; the next successful cycle with the
\* snapshot of the last successful one is in the same epoch and matches
\* nothing.
C6_FetchFailureKeepsState ==
    [][ /\ lastStep' = "fetchNull"
           => ( /\ UNCHANGED <<previousOverallStockSignature,
                               notifiedItemsThisOverallStockCycle>>
                /\ effects' = {}
                /\ Len(running') < Len(running) )
        /\ (recovery = "failed" /\ lastStep' \in FetchOkSteps /\ lastStock' = lastStock)
           => ( /\ lastMatches' = <<>>
                /\ effects' = {}
                /\ UNCHANGED <<previousOverallStockSignature,
                               notifiedItemsThisOverallStockCycle>> ) ]_vars

\* after a failed fetch the snapshot of the current epoch came again and
\* its notified keyword item was not matched
C6_Witness ==
    /\ recovery = "sameAfterFail"
    /\ lastStep = "noMatch"
    /\ notifiedItemsThisOverallStockCycle # {}

\* C7: a cycle that finds the hour inside the quiet window does not call the
\* sender and ends.
C7_QuietHoursNeverSend ==
    [][ ( /\ lastStep' \in FetchOkSteps
          /\ lastHour' >= 0
          /\ isQuietHours(lastHour', QUIET_HOURS_START, QUIET_HOURS_END) )
        => ( /\ "sendWhatsAppAlert" \notin effects'
             /\ Len(running') < Len(running) ) ]_vars

\* matches were suppressed at 23h in the overnight window
C7_Witness ==
    /\ lastStep = "quiet"
    /\ lastMatches # <<>>
    /\ lastHour = 23
    /\ QUIET_HOURS_START = 22

\* C8: isQuietHours is true exactly for start <= hour < end when
\* start < end, and for hour >= start or hour < end when start >= end;
\* 22..7 makes 22, 23, 0..6 quiet, 0..9 makes 0..8 quiet, start = end makes
\* every hour quiet.
C8_QuietHoursWindow ==
    quietOut # <<>> =>
        LET h == quietHour
            s == QUIET_HOURS_START
            e == QUIET_HOURS_END
        IN  /\ quietOut[1] <=> ( \/ (s < e /\ s <= h /\ h < e)
                                 \/ (s >= e /\ (h >= s \/ h < e)) )
            /\ (s = 22 /\ e = 7) => (quietOut[1] <=> h \in {22, 23} \cup 0..6)
            /\ (s = 0 /\ e = 9) => (quietOut[1] <=> h \in 0..8)
            /\ (s = e) => quietOut[1]

\* 3h was found quiet in the window 22..7
C8_Witness ==
    /\ quietOut = <<TRUE>>
    /\ quietHour = 3
    /\ QUIET_HOURS_START = 22
    /\ QUIET_HOURS_END = 7

\* C9: two snapshots that hold the same items in every category, in any
\* order of the items and of the categories, have the same signature.
C9_SignatureOrderIndependent ==
    ( /\ sigOut # <<>>
      /\ \A k \in {"seedsStock", "eggStock", "gearStock"} :
            SeqToBag(ItemsUnder(sigIn[1], k)) = SeqToBag(ItemsUnder(sigIn[2], k)) )
    => sigOut[1] = sigOut[2]

\* the signatures of two snapshots agreed although the categories are
\* visited in another order and a list holds its two names in another order
C9_Witness ==
    /\ sigOut # <<>>
    /\ sigOut[1] = sigOut[2]
    /\ sigIn[2][1].key # sigIn[1][1].key
    /\ \E k \in {"seedsStock", "eggStock", "gearStock"} :
          /\ Len(ItemsUnder(sigIn[1], k)) = 2
          /\ ItemsUnder(sigIn[1], k) # ItemsUnder(sigIn[2], k)
          /\ SeqToBag(ItemsUnder(sigIn[1], k)) = SeqToBag(ItemsUnder(sigIn[2], k))
    /\ \A k \in {"seedsStock", "eggStock", "gearStock"} :
          SeqToBag(ItemsUnder(sigIn[1], k)) = SeqToBag(ItemsUnder(sigIn[2], k))

\* the bag of (name, category) pairs of the named items of a snapshot
PairBag(stock) ==
    LET visits == Named(VisitOrder(stock))
    IN  SeqToBag([i \in 1..Len(visits) |->
                    <<visits[i].name, categoryMap(visits[i].catKey)>>])

\* C10: two snapshots have the same signature if and only if they hold the
\* same multiset of (name, category) pairs, for every item name, names with
\* `|` or `,` included.
C10_SignatureIffSameMultiset ==
    sigOut # <<>> =>
        ((sigOut[1] = sigOut[2]) <=> (PairBag(sigIn[1]) = PairBag(sigIn[2])))

\* C11: when the sender returns failure for a cycle's message, the tokens
\* of the matched items stay in the notified set; in every later cycle of
\* the same epoch none of them is matched, and a cycle that sees only them
\* calls no sender.
C11_FailedSendNotRetried ==
    [][ /\ unsent' \subseteq notifiedItemsThisOverallStockCycle'
        /\ lastStep' \in {"sendFail", "sendRefused"} =>
              /\ Tokens(lastMatches') # {}
              /\ Tokens(lastMatches') \subseteq unsent'
        /\ (lastStep' \in FetchOkSteps /\ epochSig' = epochSig) =>
              /\ Tokens(lastMatches') \cap unsent = {}
              /\ (unsent # {} /\ KeywordTokens(lastStock') \subseteq unsent)
                    => (lastMatches' = <<>> /\ effects' = {}) ]_vars

\* the send of an initialised sender failed, and a later cycle of the epoch
\* saw the same keyword item and did not match it
C11_Witness ==
    /\ isInitialized
    /\ unsent # {}
    /\ lastStep = "noMatch"
    /\ KeywordTokens(lastStock) = unsent

\* two code units that are the same letter, in the same case or not
SameIgnoringCase(a, b) ==
    \/ a = b
    \/ a \in 65..90 /\ b = a + 32
    \/ b \in 65..90 /\ a = b + 32

\* kw occurs in name as a contiguous run of letters, compared without case
OccursIgnoringCase(kw, name) ==
    \E off \in 0..(Len(name) - Len(kw)) :
        \A j \in 1..Len(kw) : SameIgnoringCase(name[off + j], kw[j])

\* the keywords that occur in a name, as indexes into the keyword list
KeywordsIn(name) ==
    {k \in 1..Len(KEYWORDS_TO_MONITOR) :
        OccursIgnoringCase(KEYWORDS_TO_MONITOR[k], name)}

\* C12: an item whose token is not in the notified set is matched if and
\* only if some configured keyword occurs in its name as a contiguous
\* substring, letters compared without regard to case.
C12_MatchedIffKeywordOccurs ==
    ( /\ matchOut # <<>>
      /\ itemIdentifier(matchIn.name, matchIn.catKey) \notin matchIn.notified )
    => /\ Len(matchOut[1].found) <= 1
       /\ ( /\ Len(matchOut[1].found) = 1
            /\ matchOut[1].found[1].name = matchIn.name )
          <=> KeywordsIn(matchIn.name) # {}

\* 'Bug Egg' was found in "BUG EGGPLANT"
C12_Witness ==
    /\ matchOut # <<>>
    /\ matchIn.name = BugEggplantUpper
    /\ matchIn.notified = {}
    /\ Len(matchOut[1].found) = 1
    /\ matchOut[1].found[1].matchedKeyword = BugEgg

\* C13: an item whose name contains several keywords yields one match
\* result, and the keyword recorded in it is the one that comes first in
\* the keyword list.
C13_FirstKeywordInListOrder ==
    ( /\ matchOut # <<>>
      /\ itemIdentifier(matchIn.name, matchIn.catKey) \notin matchIn.notified
      /\ Cardinality(KeywordsIn(matchIn.name)) >= 2 )
    => /\ Len(matchOut[1].found) = 1
       /\ \E k \in KeywordsIn(matchIn.name) :
             /\ \A h \in KeywordsIn(matchIn.name) : k <= h
             /\ matchOut[1].found[1].matchedKeyword = KEYWORDS_TO_MONITOR[k]

\* "Pineapple Kiwi" was matched by 'Kiwi', the sixth keyword, although
\* 'Pineapple', the seventh, comes first in the name
C13_Witness ==
    /\ matchOut # <<>>
    /\ matchIn.name = PineappleKiwi
    /\ Len(matchOut[1].found) = 1
    /\ matchOut[1].found[1].matchedKeyword = Kiwi

\* the named items of a snapshot whose name contains a keyword
KeywordItems(stock) ==
    SelectSeq(Named(VisitOrder(stock)), LAMBDA v : KeywordsIn(v.name) # {})

\* C14: from the initial state (no signature stored, nothing notified) a
\* successful cycle outside quiet hours on a snapshot with items stores the
\* snapshot's signature, yields one match result for every named item that
\* contains a keyword, leaves exactly the tokens of those items in the
\* notified set and calls the sender once, with a body that names them all.
C14_FirstCycleMatchesEveryItem ==
    [][ ( /\ epochSig = <<>>
          /\ previousOverallStockSignature = <<>>
          /\ notifiedItemsThisOverallStockCycle = {}
          /\ lastStep' \in FetchOkSteps
          /\ Named(VisitOrder(lastStock')) # <<>>
          /\ ~( /\ lastHour' >= 0
                /\ isQuietHours(lastHour', QUIET_HOURS_START, QUIET_HOURS_END) ) )
        => LET items == KeywordItems(lastStock')
           IN  /\ previousOverallStockSignature' # <<>>
               /\ previousOverallStockSignature' =
                     currentOverallStockSignature(lastStock')
               /\ Len(lastMatches') = Len(items)
               /\ \A k \in 1..Len(items) :
                     /\ k <= Len(lastMatches')
                     /\ lastMatches'[k].name = items[k].name
                     /\ lastMatches'[k].category = categoryMap(items[k].catKey)
               /\ notifiedItemsThisOverallStockCycle' =
                     {itemIdentifier(items[k].name, items[k].catKey) :
                         k \in 1..Len(items)}
               /\ IF items = <<>>
                  THEN effects' = {}
                  ELSE /\ effects' = {"sendWhatsAppAlert"}
                       /\ \A k \in 1..Len(items) :
                             includes(messageBody(lastMatches'), items[k].name)
      ]_vars

\* C15: a cycle whose snapshot has the stored signature and whose keyword
\* tokens are all in the notified set yields no match result and calls no
\* sender; in any cycle the sender is called only with a match list that is
\* not empty.
C15_NoMatchNoSend ==
    [][ /\ "sendWhatsAppAlert" \in effects' =>
              /\ lastStep' \in {"sendCall", "sendRefused"}
              /\ lastMatches' # <<>>
        /\ ( /\ lastStep' \in FetchOkSteps
             /\ signatureOf[lastStock'] = previousOverallStockSignature
             /\ KeywordTokens(lastStock') \subseteq notifiedItemsThisOverallStockCycle )
           => ( /\ lastMatches' = <<>>
                /\ lastStep' = "noMatch"
                /\ effects' = {}
                /\ UNCHANGED <<previousOverallStockSignature,
                               notifiedItemsThisOverallStockCycle>> ) ]_vars

\* the snapshot with two keyword items came again, both tokens were in the
\* notified set and nothing was matched or sent
C15_Witness ==
    /\ lastStep = "noMatch"
    /\ effects = {}
    /\ lastMatches = <<>>
    /\ Cardinality(KeywordTokens(lastStock)) = 2
    /\ notifiedItemsThisOverallStockCycle = KeywordTokens(lastStock)

\* C16: an invocation skipped by the guard is dropped: the step in which the
\* running cycle ends starts no cycle and leaves the lock free, and a cycle
\* starts only in a timer callback at a target instant that finds the lock
\* free.
C16_SkippedInvocationDropped ==
    [][ /\ (dropped /\ Len(running') < Len(running)) =>
              /\ running' = <<>>
              /\ ~isCheckRunning'
              /\ "fetchStockData" \notin effects'
        /\ ( \/ "fetchStockData" \in effects'
             \/ Len(running') > Len(running)
             \/ \E j \in 1..Len(running') :
                   /\ running'[j].pc = "fetch"
                   /\ j <= Len(running)
                   /\ running[j].pc # "fetch" )
           => ( /\ lastStep' = "start"
                /\ ~isCheckRunning
                /\ tickAt'[1] \in TARGET_MINUTES
                /\ tickAt'[2] = TARGET_SECONDS ) ]_vars

\* an invocation was skipped during a cycle, the cycle ended with its
\* message sent and nothing is running
C16_Witness ==
    /\ dropped
    /\ lastStep = "sendOk"
    /\ running = <<>>
    /\ ~isCheckRunning

\* C17: with the timer callback run once in every second, checkStockAndNotify
\* is invoked in the callback of every instant whose minute is in
\* TARGET_MINUTES and whose second is TARGET_SECONDS, once, and in no other
\* step.
C17_InvokedExactlyAtTargetInstants ==
    [][ IF tickAt' # tickAt
        THEN lastStep' \in {"start", "skip"}
                <=> ( /\ tickAt'[1] \in {2, 6, 11, 16, 21, 26, 31, 36, 41, 46, 51, 56}
                      /\ tickAt'[2] = 30 )
        ELSE lastStep' \notin {"start", "skip"} ]_vars

\* the callback of 06:30 invoked checkStockAndNotify while the cycle of
\* 02:30 was still waiting for the provider
C17_Witness ==
    /\ tickAt = <<6, 30>>
    /\ lastStep = "skip"
    /\ Len(running) = 1

\* C18: with the sender not initialised the cycles still run: an invocation
\* that finds the lock free fetches, a snapshot has its signature stored,
\* its keyword items matched and marked; a match list outside quiet hours
\* is handed to the sender, which returns failure at once, nothing is
\* delivered and the cycle ends through its normal exit.
C18_PipelineRunsWithoutSender ==
    [][ ~isInitialized =>
          /\ (lastStep' \in {"start", "skip"} /\ ~isCheckRunning) =>
                /\ lastStep' = "start"
                /\ "fetchStockData" \in effects'
          /\ lastStep' \in FetchOkSteps =>
                /\ previousOverallStockSignature' =
                      signatureOf[lastStock']
                /\ Tokens(lastMatches') =
                      KeywordTokens(lastStock') \
                         (IF previousOverallStockSignature' = previousOverallStockSignature
                          THEN notifiedItemsThisOverallStockCycle ELSE {})
                /\ KeywordTokens(lastStock') \subseteq notifiedItemsThisOverallStockCycle'
                /\ ( /\ lastMatches' # <<>>
                     /\ ~isQuietHours(lastHour', QUIET_HOURS_START, QUIET_HOURS_END) )
                   => ( /\ lastStep' = "sendRefused"
                        /\ "sendWhatsAppAlert" \in effects'
                        /\ Len(running') < Len(running)
                        /\ ~isCheckRunning' )
          /\ lastStep' \notin {"sendCall", "sendOk", "sendFail"} ]_vars

\* without credentials a cycle matched a keyword item, marked it, had the
\* send refused and ended
C18_Witness ==
    /\ ~isInitialized
    /\ lastStep = "sendRefused"
    /\ lastMatches # <<>>
    /\ Tokens(lastMatches) \subseteq notifiedItemsThisOverallStockCycle
    /\ previousOverallStockSignature = signatureOf[lastStock]
    /\ running = <<>>
    /\ ~isCheckRunning

\* the fetches the provider has to report as failed: a rejected request and
\* a page that holds none of the stock headings
FailedFetch(response) ==
    \/ response.kind \in {"networkError", "timeout", "status"}
    \/ /\ response.kind = "page"
       /\ \A j \in 1..Len(response.sections) :
             response.sections[j].heading \notin
                {"SEEDS STOCK", "EGG STOCK", "GEAR STOCK", "HONEY STOCK",
                 "COSMETICS STOCK"}

\* C19: fetchStockData resolves to null, not to a snapshot, for every failed
\* fetch: network error, status outside 2xx, timeout, and a page of
\* unexpected shape, such as one with none of the stock headings.
C19_NullOnEveryFailedFetch ==
    (scrapeOut # <<>> /\ FailedFetch(scrapeIn)) => scrapeOut[1].isNull

\* C20: the tokens matched in a cycle that falls in quiet hours are in the
\* notified set when the cycle ends, although nothing was sent; in every
\* later cycle of the same epoch, at whatever hour, none of them is matched
\* or handed to the sender.
C20_QuietMatchesNeverSent ==
    [][ /\ suppressed' \subseteq notifiedItemsThisOverallStockCycle'
        /\ lastStep' = "quiet" =>
              /\ Tokens(lastMatches') # {}
              /\ Tokens(lastMatches') \subseteq suppressed'
              /\ effects' = {}
        /\ (lastStep' \in FetchOkSteps /\ epochSig' = epochSig) =>
              /\ Tokens(lastMatches') \cap suppressed = {}
              /\ (suppressed # {} /\ KeywordTokens(lastStock') \subseteq suppressed)
                    => "sendWhatsAppAlert" \notin effects' ]_vars

\* a keyword item was matched in quiet hours, and a later cycle of the epoch
\* saw it again and neither matched nor sent it
C20_Witness ==
    /\ suppressed # {}
    /\ unsent = {}
    /\ lastStep = "noMatch"
    /\ KeywordTokens(lastStock) = suppressed
    /\ suppressed \subseteq notifiedItemsThisOverallStockCycle

\* C21: when every provider call and every sender call settles, a cycle
\* that took the lock eventually leaves with the lock free and nothing
\* suspended, and an invocation that finds the lock free starts a cycle.
C21_RunningCycleReturnsToIdle ==
    /\ (isCheckRunning ~> (~isCheckRunning /\ running = <<>>))
    /\ [][ (lastStep' \in {"start", "skip"} /\ ~isCheckRunning)
            => ( /\ lastStep' = "start"
                 /\ isCheckRunning'
                 /\ Len(running') = Len(running) + 1 ) ]_vars

\* a cycle obtained a snapshot and ended, and a later target instant
\* started the next cycle
C21_Witness ==
    /\ lastStep = "start"
    /\ lastStock # <<>>
    /\ isCheckRunning
    /\ Len(running) = 1

\* an execution is suspended at `await sendWhatsAppAlert(messageBody)`
SendPending == \E i \in 1..Len(running) : running[i].pc = "send"

\* C22: when the call of the sender never settles, the lock stays taken for
\* ever, the execution stays suspended, every later invocation returns at
\* the guard, and no provider call, match or sender call happens any more.
C22_HungSendBlocksForever ==
    /\ [](SendPending => [](isCheckRunning /\ SendPending))
    /\ [][ SendPending =>
              /\ lastStep' \in {"skip", "tick"}
              /\ effects' = {}
              /\ UNCHANGED <<progVars, running, lastStock, lastMatches, histVars>> ]_vars

\* the message of a cycle is at the sender, which does not answer, and the
\* invocation of a later target instant was skipped
C22_Witness ==
    /\ lastStep = "skip"
    /\ isCheckRunning
    /\ Len(running) = 1
    /\ running[1].pc = "send"
    /\ Tokens(running[1].found) # {}
    /\ Tokens(running[1].found) \subseteq notifiedItemsThisOverallStockCycle

\* C23: while an execution is suspended at the provider or at the sender
\* the timer callback can run, at a target instant and at any other; the
\* callback of a target instant reaches the guard and is skipped, and the
\* callback of any other instant, whether a cycle is outstanding or not,
\* changes neither the signature, the notified set, the lock nor the
\* suspended execution.
C23_TimerNeverBlocked ==
    /\ [](running # <<>> =>
             /\ ENABLED SchedulerTick(2, 30)
             /\ ENABLED SchedulerTick(2, 29))
    /\ [][ lastStep' \in {"tick", "skip", "start"} =>
              IF tickAt'[1] \in {2, 6, 11, 16, 21, 26, 31, 36, 41, 46, 51, 56}
                    /\ tickAt'[2] = 30
              THEN running # <<>> =>
                      /\ lastStep' = "skip"
                      /\ effects' = {}
                      /\ UNCHANGED <<progVars, running>>
              ELSE /\ lastStep' = "tick"
                   /\ effects' = {}
                   /\ UNCHANGED <<progVars, running>> ]_vars

\* with a message at the sender, the callback of a target instant was
\* skipped and then the callback of 03:29 ran and did nothing
C23_Witness ==
    /\ lastStep = "tick"
    /\ tickAt = <<3, 29>>
    /\ dropped
    /\ Len(running) = 1
    /\ running[1].pc = "send"
    /\ isCheckRunning

\* C24: when the snapshot of a successful cycle has another signature than
\* the snapshot of the successful cycle before it, a keyword item that is in
\* both snapshots and whose token was in the notified set is matched again
\* and marked again, and outside quiet hours it is handed to the sender
\* again.
C24_RenotifiedAfterOtherItemChanged ==
    [][ ( /\ lastStep' \in FetchOkSteps
          /\ lastStock # <<>>
          /\ signatureOf[lastStock'] # signatureOf[lastStock] )
        => \A t \in (notifiedItemsThisOverallStockCycle \cap KeywordTokens(lastStock))
                        \cap KeywordTokens(lastStock') :
              /\ t \in Tokens(lastMatches')
              /\ t \in notifiedItemsThisOverallStockCycle'
              /\ ~isQuietHours(lastHour', QUIET_HOURS_START, QUIET_HOURS_END)
                    => /\ lastStep' \in {"sendCall", "sendRefused"}
                       /\ "sendWhatsAppAlert" \in effects' ]_vars

\* a Carrot came beside the Kiwi that had been notified, and the Kiwi alone
\* was matched again and sent at noon
C24_Witness ==
    /\ lastStep = "sendCall"
    /\ lastHour = 12
    /\ rematched = {itemIdentifier(Kiwi, "seedsStock")}
    /\ Tokens(lastMatches) = rematched
    /\ lastStock = << [key |-> "seedsStock", items |-> <<[name |-> Kiwi], [name |-> Carrot]>>],
                      [key |-> "eggStock", items |-> <<>>],
                      [key |-> "gearStock", items |-> <<>>] >>

\* C25: a snapshot without named items that comes in an epoch with a
\* signature empties the notified set and stores the empty signature, and
\* matches and sends nothing; when the snapshot of that epoch comes again
\* in the next successful cycle, its signature is stored as a change, every
\* keyword token of it is matched and marked, the tokens notified before
\* among them, and outside quiet hours the match list is handed to the
\* sender.
C25_EmptySnapshotRestartsEpoch ==
    [][ /\ ( /\ lastStep' \in FetchOkSteps
             /\ signatureOf[lastStock'] = <<>>
             /\ previousOverallStockSignature # <<>> )
           => ( /\ notifiedItemsThisOverallStockCycle' = {}
                /\ previousOverallStockSignature' = <<>>
                /\ lastMatches' = <<>>
                /\ effects' = {} )
        /\ ( /\ emptyGap.phase = "empty"
             /\ lastStep' \in FetchOkSteps
             /\ lastStock' = emptyGap.stock )
           => ( /\ previousOverallStockSignature = <<>>
                /\ previousOverallStockSignature' = signatureOf[lastStock']
                /\ previousOverallStockSignature' # <<>>
                /\ Tokens(lastMatches') = KeywordTokens(lastStock')
                /\ KeywordTokens(emptyGap.stock) \subseteq Tokens(lastMatches')
                /\ notifiedItemsThisOverallStockCycle' = KeywordTokens(lastStock')
                /\ ( /\ lastMatches' # <<>>
                     /\ ~isQuietHours(lastHour', QUIET_HOURS_START, QUIET_HOURS_END) )
                   => ( /\ lastStep' \in {"sendCall", "sendRefused"}
                        /\ "sendWhatsAppAlert" \in effects' ) ) ]_vars

\* the Kiwi had been notified, a snapshot without items came, the same
\* snapshot with the Kiwi came back and the Kiwi was sent again
C25_Witness ==
    /\ emptyGap.phase = "sameAfterEmpty"
    /\ Tokens(lastMatches) = {itemIdentifier(Kiwi, "eggStock")}
    /\ lastStep = "sendCall"
    /\ unsent = {}
    /\ suppressed = {}

C27_KeywordItemsMarkedAfterCycle ==
    /\ []((~isCheckRunning /\ lastStock # <<>>)
             => KeywordTokens(lastStock) \subseteq notifiedItemsThisOverallStockCycle)
    /\ [][ ( /\ Len(running') < Len(running)
              /\ lastStep' \in {"noMatch", "quiet", "sendRefused", "sendOk", "sendFail",
                                "exception"}
              /\ lastStock' # <<>> )
            => KeywordTokens(lastStock') \subseteq notifiedItemsThisOverallStockCycle' ]_vars

\* the send for a snapshot with two keyword items failed and both tokens
\* are marked
C27_Witness ==
    /\ lastStep = "sendFail"
    /\ ~isCheckRunning
    /\ Cardinality(KeywordTokens(lastStock)) = 2
    /\ KeywordTokens(lastStock) \subseteq notifiedItemsThisOverallStockCycle

\* a match list without two entries of the same name|category token
NoRepeatedToken(found) ==
    \A i, j \in 1..Len(found) :
        (found[i].name = found[j].name /\ found[i].category = found[j].category)
            => i = j

\* C28: the match list of a cycle of app.js, as built by the pass and as
\* held by an execution suspended at the send, never has two entries with
\* the same token, also when the snapshot lists a name twice in a category.
C28_MatchListHasNoRepeatedToken ==
    /\ NoRepeatedToken(lastMatches)
    /\ \A i \in 1..Len(running) : NoRepeatedToken(running[i].found)

\* the gear list held the Kiwi twice and one entry was matched and handed to
\* the sender
C28_Witness ==
    /\ lastStep = "sendCall"
    /\ lastStock # <<>>
    /\ ItemsUnder(lastStock, "gearStock") = <<[name |-> Kiwi], [name |-> Kiwi]>>
    /\ Len(lastMatches) = 1
    /\ Len(running) = 1
    /\ running[1].found = lastMatches

\* C29: the matching pass of app.js is a pure filter: the notified set it
\* leaves is the set it was given, whatever it matched.
C29_MatchingStepIsPureFilter ==
    matchOut # <<>> => matchOut[1].notified = matchIn.notified

\* the number of places at which pat occurs in s
Occurrences(s, pat) ==
    Cardinality({i \in 0..(Len(s) - Len(pat)) : SubSeq(s, i + 1, i + Len(pat)) = pat})

\* a message with one line for every entry of a match list, each entry's
\* name and category in it
ListsEvery(body, found) ==
    /\ Occurrences(body, <<10, 45, 32>>) = Len(found)
    /\ \A k \in 1..Len(found) :
          /\ includes(body, found[k].name)
          /\ includes(body, found[k].category)

\* C30: a cycle with matches outside quiet hours calls the sender once, with
\* one message that has a line for every entry of the match list, with the
\* name and the category of the entry; a cycle without matches or in quiet
\* hours makes no call; when the send has settled that call is still the
\* only one of the cycle, and no other step calls the sender.
C30_OneConsolidatedAlert ==
    /\ Len(lastBodies) <= 1
    /\ lastStep \in FetchOkSteps =>
          IF /\ lastMatches # <<>>
             /\ ~isQuietHours(lastHour, QUIET_HOURS_START, QUIET_HOURS_END)
          THEN /\ Len(lastBodies) = 1
               /\ effects = {"sendWhatsAppAlert"}
               /\ ListsEvery(lastBodies[1], lastMatches)
          ELSE /\ lastBodies = <<>>
               /\ effects = {}
    /\ lastStep \in {"sendOk", "sendFail"} =>
          /\ effects = {}
          /\ Len(lastBodies) = 1
          /\ ListsEvery(lastBodies[1], lastMatches)
    /\ lastStep \notin FetchOkSteps => "sendWhatsAppAlert" \notin effects

\* a Kiwi among the seeds and a Kiwi among the eggs were matched at noon and
\* one message that names both categories went to the sender
C30_Witness ==
    /\ lastStep = "sendCall"
    /\ Len(lastMatches) = 2
    /\ lastMatches[1].category # lastMatches[2].category
    /\ Len(lastBodies) = 1
    /\ includes(lastBodies[1], lastMatches[1].category)
    /\ includes(lastBodies[1], lastMatches[2].category)

\* where an entry of a match list stands in a snapshot: the place of its
\* category in the order Seed, Egg, Gear and the first place of its name in
\* the list of that category
PlaceIn(stock, entry) ==
    LET keys == <<"seedsStock", "eggStock", "gearStock">>
        r == CHOOSE k \in 1..3 : categoryMap(keys[k]) = entry.category
        list == ItemsUnder(stock, keys[r])
        at == {p \in 1..Len(list) : list[p].name = entry.name}
    IN  <<r, CHOOSE p \in at : \A q \in at : p <= q>>

\* place a comes before place b
PlaceBefore(a, b) == a[1] < b[1] \/ (a[1] = b[1] /\ a[2] < b[2])

\* the first place at which pat occurs in s, 0 when it does not
FirstOccurrence(s, pat) ==
    LET at == {i \in 1..(Len(s) - Len(pat) + 1) : SubSeq(s, i, i + Len(pat) - 1) = pat}
    IN  IF at = {} THEN 0 ELSE CHOOSE i \in at : \A j \in at : i <= j

\* the text of an entry in a message: its name between stars and its
\* category
EntryText(entry) ==
    <<42>> \o entry.name \o <<42, 32, 40, 67, 97, 116, 101, 103, 111, 114, 121, 58, 32>>
        \o entry.category

\* C31: the entries of the match list of a cycle stand in the order of the
\* categories Seed, Egg, Gear and, within a category, in the order of the
\* items in the snapshot; the message names the entries in the same order.
C31_MatchListInSnapshotOrder ==
    passOut # <<>> =>
        LET found == passOut[1].found
            body == passOut[1].body
        IN  \A i, j \in 1..Len(found) :
                i < j =>
                    /\ PlaceBefore(PlaceIn(passIn.stock, found[i]),
                                   PlaceIn(passIn.stock, found[j]))
                    /\ FirstOccurrence(body, EntryText(found[i])) > 0
                    /\ FirstOccurrence(body, EntryText(found[i]))
                          < FirstOccurrence(body, EntryText(found[j]))

\* a Kiwi in the gear list and a Loquat among the seeds: the Loquat is
\* matched first and named first in the message
C31_Witness ==
    /\ passOut # <<>>
    /\ passIn.notified = {}
    /\ ItemsUnder(passIn.stock, "gearStock") = <<[name |-> Kiwi]>>
    /\ ItemsUnder(passIn.stock, "seedsStock") = <<[name |-> Loquat]>>
    /\ Len(passOut[1].found) = 2
    /\ passOut[1].found[1].name = Loquat
    /\ passOut[1].found[2].name = Kiwi
    /\ FirstOccurrence(passOut[1].body, Loquat) < FirstOccurrence(passOut[1].body, Kiwi)

\* the number of tokens of a signature: one more than its commas
TokenCount(signature) ==
    IF signature = <<>> THEN 0 ELSE Occurrences(signature, <<44>>) + 1

\* the items of a snapshot that have a non-empty name, list by list
NamedItems(stock) ==
    [r \in 1..Len(stock) |-> SelectSeq(stock[r].items, LAMBDA item : item.name # <<>>)]

\* the sum of the lengths of the sequences of a sequence
RECURSIVE TotalLen(_)
TotalLen(lists) ==
    IF lists = <<>> THEN 0 ELSE Len(Head(lists)) + TotalLen(Tail(lists))

\* C32: an item without a name (a null item, a missing name, an empty
\* string) contributes no token to the signature, gives no match result
\* and adds nothing to the notified set, and the items next to it are
\* processed: the signature has one token for every item with a non-empty
\* name, and an item that carries a keyword is matched and marked when the
\* pass starts with the empty set.
C32_NamelessItemsSkipped ==
    passOut # <<>> =>
       /\ TokenCount(passOut[1].signature) = TotalLen(NamedItems(passIn.stock))
       /\ \A k \in 1..Len(passOut[1].found) : passOut[1].found[k].name # <<>>
       /\ \A t \in passOut[1].notified \ passIn.notified : Head(t) # 124
       /\ passIn.notified = {} =>
             \A r \in 1..Len(passIn.stock) :
                \A p \in 1..Len(passIn.stock[r].items) :
                   passIn.stock[r].items[p].name \in {Kiwi, Loquat, BugEgg} =>
                      \E k \in 1..Len(passOut[1].found) :
                         /\ passOut[1].found[k].name = passIn.stock[r].items[p].name
                         /\ (passOut[1].found[k].name \o <<124>>
                                \o passOut[1].found[k].category) \in passOut[1].notified

\* C33: the quiet-hours decision of the scheduled variant of FetchData.js is
\* the specified window for every hour, start and end in 0..23: the hours
\* from start up to end when start < end, and the hours from start to
\* midnight and from midnight up to end when start >= end, so that 22..7
\* makes 22, 23 and 0..6 quiet.
C33_ScheduledQuietWindowWraps ==
    quietOut # <<>> =>
        /\ QUIET_HOURS_START < QUIET_HOURS_END =>
              (quietOut[1] <=> quietHour \in QUIET_HOURS_START..(QUIET_HOURS_END - 1))
        /\ QUIET_HOURS_START >= QUIET_HOURS_END =>
              (quietOut[1] <=> quietHour \in QUIET_HOURS_START..23 \cup 0..(QUIET_HOURS_END - 1))

\* C34: in the interval variant, whatever the order of timer firings and
\* of fetch and send completions, a token is included in at most one
\* delivered alert of an epoch.
C34_IntervalAtMostOneAlertPerEpoch ==
    \A t \in BagToSet(epochSent) : CopiesIn(t, epochSent) <= 1

Entries(body) ==
    LET starts == {i \in 1..(Len(body) - 2) : SubSeq(body, i, i + 2) = <<10, 45, 32>>}
        startOf(k) == CHOOSE i \in starts : Cardinality({j \in starts : j < i}) = k - 1
        endOf(k) == IF k = Cardinality(starts) THEN Len(body) ELSE startOf(k + 1) - 1
    IN  [k \in 1..Cardinality(starts) |-> SubSeq(body, startOf(k) + 3, endOf(k))]

\* a text without the first occurrence of a part it includes
Without(text, part) ==
    LET p == FirstOccurrence(text, part)
    IN  IF p = 0 THEN text
        ELSE SubSeq(text, 1, p - 1) \o SubSeq(text, p + Len(part), Len(text))

\* C36: the message of app.js has one entry for every match result, and the
\* entry carries the name of the item, its category and, next to the name,
\* the keyword that matched it.
C36_EntryCarriesMatchedKeyword ==
    (passOut # <<>> /\ passOut[1].found # <<>>) =>
        LET found == passOut[1].found
            entries == Entries(passOut[1].body)
        IN  /\ Len(entries) = Len(found)
            /\ \A k \in 1..Len(found) :
                  /\ includes(entries[k], found[k].name)
                  /\ includes(entries[k], found[k].category)
                  /\ includes(Without(entries[k], found[k].name), found[k].matchedKeyword)

(***************************************************************************)
(* Type invariant.                                                         *)
(***************************************************************************)
TypeOK ==
    /\ isCheckRunning \in BOOLEAN
    /\ notifiedItemsThisOverallStockCycle \subseteq
          {itemIdentifier(n, k) : n \in ItemNames, k \in {"seedsStock", "eggStock", "gearStock"}}
    /\ \A i \in 1..Len(running) : running[i].pc \in {"fetch", "send"}
    /\ lastHour \in CycleHours \cup {-1}
    /\ recovery \in {"none", "failed", "sameAfterFail", "otherAfterFail"}

=============================================================================
